---------------------------- MODULE Spec2Model ----------------------------
(***************************************************************************)
(* A model of target-postgres: the line handler (target_tools.py), the     *)
(* per-stream record buffer (singer_stream.py), and the batch writer,      *)
(* upsert statement and table-version activation (postgres.py).            *)
(*                                                                         *)
(* Table names are sequences of one-character strings so that string       *)
(* concatenation, slicing and the SQL LIKE pattern of activate_version are *)
(* computed as the code computes them.                                     *)
(***************************************************************************)
EXTENDS Integers, Sequences, FiniteSets, TLC

(***************************************************************************)
(* Bounds of the model.                                                    *)
(***************************************************************************)
MaxLines == 4          \* input lines read before end-of-input
MaxSeq == 2            \* upsert tables: _sdc_sequence values 1..MaxSeq
MaxTemp == 2           \* upsert tables: rows loaded into the staging table

(***************************************************************************)
(* Configuration (stream_to_target reads it from `config`).                *)
(***************************************************************************)
max_batch_rows == 2
batch_detection_threshold == 2
invalid_records_threshold == 2
invalid_records_detect == TRUE
max_batch_size == 3
state_support == TRUE

(***************************************************************************)
(* Python's None, for an absent version.  Versions are positive integers.  *)
(***************************************************************************)
None == 0

NESTED_SEPARATOR == <<"_", "_">>
SINGER_PK == "_sdc_primary_key"

StreamA == <<"a">>
StreamB == <<"b">>
Streams == {StreamA, StreamB}
Versions == {1, 2}
ArrayPath == <<"t">>   \* the one array-valued property a schema may declare

Digit(d) ==
    CASE d = 0 -> "0" [] d = 1 -> "1" [] d = 2 -> "2" [] d = 3 -> "3"
      [] d = 4 -> "4" [] d = 5 -> "5" [] d = 6 -> "6" [] d = 7 -> "7"
      [] d = 8 -> "8" [] d = 9 -> "9"

RECURSIVE str(_)
\* Python's str() of a non-negative integer, as a sequence of digits.
str(n) == IF n < 10 THEN <<Digit(n)>> ELSE str(n \div 10) \o <<Digit(n % 10)>>

Range(f) == {f[i] : i \in DOMAIN f}

RECURSIVE SetToSeqs(_)
\* Every ordering of a finite set: the row order of a SELECT without ORDER BY.
SetToSeqs(S) ==
    IF S = {} THEN {<<>>}
    ELSE UNION {{<<x>> \o q : q \in SetToSeqs(S \ {x})} : x \in S}

(***************************************************************************)
(* The backing store: `tables` maps a table name to                        *)
(*   meta : the table comment (present, key_properties, version)           *)
(*   rows : the rows, each [pk, seq, lvl, val]                             *)
(***************************************************************************)
NoMeta == [present |-> FALSE, key_properties |-> <<>>, version |-> None]

Comment(key_properties, table_version) ==
    [present |-> TRUE, key_properties |-> key_properties, version |-> table_version]

\* get_table_metadata: the parsed table comment, or NoMeta when the table
\* does not exist or carries no comment.
get_table_metadata(tables, table_name) ==
    IF table_name \in DOMAIN tables THEN tables[table_name].meta ELSE NoMeta

\* get_schema: a table exists when information_schema lists columns for it.
get_schema(tables, table_name) == table_name \in DOMAIN tables

\* create_table: the comment is written only when key_properties is truthy.
create_table(tables, table_name, key_properties, table_version) ==
    (table_name :> [meta |-> IF Len(key_properties) > 0
                             THEN Comment(key_properties, table_version)
                             ELSE NoMeta,
                    rows |-> {}]) @@ tables


(***************************************************************************)
(* The upsert statement built by get_update_sql.  A row is                 *)
(* [pk, seq, lvl, val]: the key_properties value, _sdc_sequence, the       *)
(* _sdc_level_<n>_id value (0 in a root table) and the other columns.      *)
(* `subkeys` says whether the table has level-id columns.                  *)
(***************************************************************************)

\* Mutant of pks: the sequence join written with > instead of >=.
pks_strict(target, temp) ==
    {x.pk : x \in {t \in temp : \E y \in target : y.pk = t.pk /\ t.seq > y.seq}}

\* WITH "pks": the keys of the staging rows joined to a target row of the
\* same key with temp._sdc_sequence >= target._sdc_sequence.
pks(target, temp) ==
    {x.pk : x \in {t \in temp : \E y \in target : y.pk = t.pk /\ t.seq >= y.seq}}

\* DELETE FROM target USING "pks" WHERE target.pk = "pks".pk
delete_from(target, temp) == {y \in target : y.pk \notin pks(target, temp)}

\* Mutant of insert_candidates: the WHERE ... IS NULL filter left out.
insert_all(remaining, temp) == temp

\* FROM temp LEFT JOIN target ON pk_where WHERE target.pk IS NULL, evaluated
\* after the DELETE: the staging rows whose key the target no longer holds.
insert_candidates(remaining, temp) ==
    {t \in temp : ~ \E y \in remaining : y.pk = t.pk}

\* insert_distinct_on: key_properties, widened by the subkeys when present.
distinct_on(row, subkeys) == IF subkeys THEN <<row.pk, row.lvl>> ELSE <<row.pk>>

\* Mutant of insert_selections: ORDER BY without `_sdc_sequence DESC`, so
\* any row of a group may come first.
insert_selections_unordered(cands, subkeys) ==
    LET groups == {distinct_on(t, subkeys) : t \in cands}
    IN  {Range(f) : f \in {h \in [groups -> cands] :
                              \A g \in groups : distinct_on(h[g], subkeys) = g}}

\* SELECT DISTINCT ON (...) ... ORDER BY ..., _sdc_sequence DESC keeps, for
\* each group, a first row of the ordering: a row of highest sequence.  Rows
\* of equal sequence are ordered arbitrarily, so every choice is a result.
insert_selections(cands, subkeys) ==
    LET groups == {distinct_on(t, subkeys) : t \in cands}
        first(g) == {t \in cands : /\ distinct_on(t, subkeys) = g
                                   /\ \A u \in cands :
                                        distinct_on(u, subkeys) = g => u.seq <= t.seq}
    IN  {Range(f) : f \in {h \in [groups -> cands] : \A g \in groups : h[g] \in first(g)}}

\* The statement as a whole: every table the target can hold afterwards.
update_sql(target, temp, subkeys) ==
    LET remaining == delete_from(target, temp)
    IN  {remaining \cup ins :
            ins \in insert_selections(insert_candidates(remaining, temp), subkeys)}


(***************************************************************************)
(* The stream buffer (BufferedSingerStream).  A buffered record message is *)
(* [id, version, tags, size]: its identity (the tracker's message counter  *)
(* when it was read), its `version` (None when absent), the number of      *)
(* elements of its array property and its in-memory size.                  *)
(***************************************************************************)

DEFAULT__MAX_ROWS == 200000
DEFAULT__MAX_BUFFER_SIZE == 104857600

NoStream ==
    [hasArray |-> FALSE, key_properties |-> <<>>, use_uuid_pk |-> FALSE,
     buffer |-> <<>>, count |-> 0, size |-> 0, lifetime_max_version |-> None,
     invalid_records |-> <<>>,
     max_rows |-> DEFAULT__MAX_ROWS, max_buffer_size |-> DEFAULT__MAX_BUFFER_SIZE,
     invalid_records_detect |-> TRUE, invalid_records_threshold |-> 0]

\* Mutant of update_schema: the buffer is emptied with the schema change.
update_schema_drops_buffer(b, hasArray, key_properties) ==
    [b EXCEPT !.hasArray = hasArray,
              !.key_properties = IF Len(key_properties) = 0
                                 THEN <<SINGER_PK>> ELSE key_properties,
              !.use_uuid_pk = (Len(key_properties) = 0),
              !.buffer = <<>>, !.count = 0, !.size = 0]

\* update_schema: install the schema and key_properties; an empty
\* key_properties switches to the injected uuid primary key.
update_schema(b, hasArray, key_properties) ==
    [b EXCEPT !.hasArray = hasArray,
              !.key_properties = IF Len(key_properties) = 0
                                 THEN <<SINGER_PK>> ELSE key_properties,
              !.use_uuid_pk = (Len(key_properties) = 0)]

\* __init__: update_schema, then the limits (max_rows and max_buffer_size
\* default when falsy), the invalid-record settings, and an empty buffer.
BufferedSingerStreamWith(hasArray, key_properties, detect, threshold, rows, bytes) ==
    [update_schema(NoStream, hasArray, key_properties) EXCEPT
        !.max_rows = IF rows = 0 THEN DEFAULT__MAX_ROWS ELSE rows,
        !.max_buffer_size = IF bytes = 0 THEN DEFAULT__MAX_BUFFER_SIZE ELSE bytes,
        !.invalid_records_detect = detect,
        !.invalid_records_threshold = threshold]

\* The buffer _line_handler builds from the configuration.
BufferedSingerStream(hasArray, key_properties) ==
    BufferedSingerStreamWith(hasArray, key_properties, invalid_records_detect,
                             invalid_records_threshold, max_batch_rows, max_batch_size)

\* Mutant of flush_buffer: lifetime_max_version is reset with the buffer.
flush_buffer_forgets_version(b) ==
    [b EXCEPT !.buffer = <<>>, !.size = 0, !.count = 0, !.lifetime_max_version = None]

\* Mutant of flush_buffer: the buffer is left as it is.
flush_buffer_kept(b) == b

flush_buffer(b) == [b EXCEPT !.buffer = <<>>, !.size = 0, !.count = 0]

\* Mutant of buffer_full: the row limit must be exceeded, not reached.
buffer_full_above_limit(b) ==
    \/ b.count > b.max_rows
    \/ b.count > 0 /\ b.size >= b.max_buffer_size

buffer_full(b) ==
    \/ b.count >= b.max_rows
    \/ b.count > 0 /\ b.size >= b.max_buffer_size

get_size(m) == m.size

\* Mutant of update_version: the buffer is not flushed when the version
\* moves up.
update_version_keeps_buffer(b, version) ==
    IF version = None
       \/ (b.lifetime_max_version # None /\ b.lifetime_max_version >= version)
    THEN b
    ELSE [b EXCEPT !.lifetime_max_version = version]

\* Mutant of update_version: the buffer is flushed but the new version is
\* not recorded.
update_version_forgets_version(b, version) ==
    IF version = None
       \/ (b.lifetime_max_version # None /\ b.lifetime_max_version >= version)
    THEN b
    ELSE flush_buffer(b)

\* __update_version
update_version(b, version) ==
    IF version = None
       \/ (b.lifetime_max_version # None /\ b.lifetime_max_version >= version)
    THEN b
    ELSE [flush_buffer(b) EXCEPT !.lifetime_max_version = version]

\* Mutant of add_record_message: no check of the record's version against
\* lifetime_max_version.
add_record_message_accepts_stale(b, m, valid) ==
    LET b1 == update_version(b, m.version)
    IN  IF valid
        THEN [sb |-> [b1 EXCEPT !.buffer = Append(@, m),
                                !.size = @ + get_size(m),
                                !.count = @ + 1],
              raised |-> FALSE, added |-> TRUE]
        ELSE LET b2 == [b1 EXCEPT !.invalid_records = Append(@, m.id)]
             IN  [sb |-> b2,
                  raised |-> b2.invalid_records_detect
                             /\ Len(b2.invalid_records) >= b2.invalid_records_threshold,
                  added |-> FALSE]

\* Mutant of add_record_message: the record is counted before its version
\* is checked.
add_record_message_counts_first(b, m, valid) ==
    LET b1 == update_version(b, m.version)
    IN  IF b1.lifetime_max_version # m.version
        THEN [sb |-> [b1 EXCEPT !.count = @ + 1], raised |-> FALSE, added |-> FALSE]
        ELSE IF valid
        THEN [sb |-> [b1 EXCEPT !.buffer = Append(@, m),
                                !.size = @ + get_size(m),
                                !.count = @ + 1],
              raised |-> FALSE, added |-> TRUE]
        ELSE LET b2 == [b1 EXCEPT !.invalid_records = Append(@, m.id)]
             IN  [sb |-> b2,
                  raised |-> b2.invalid_records_detect
                             /\ Len(b2.invalid_records) >= b2.invalid_records_threshold,
                  added |-> FALSE]

\* Mutant of add_record_message: the threshold must be exceeded, not
\* reached.
add_record_message_above_threshold(b, m, valid) ==
    LET b1 == update_version(b, m.version)
    IN  IF b1.lifetime_max_version # m.version
        THEN [sb |-> b1, raised |-> FALSE, added |-> FALSE]
        ELSE IF valid
        THEN [sb |-> [b1 EXCEPT !.buffer = Append(@, m),
                                !.size = @ + get_size(m),
                                !.count = @ + 1],
              raised |-> FALSE, added |-> TRUE]
        ELSE LET b2 == [b1 EXCEPT !.invalid_records = Append(@, m.id)]
             IN  [sb |-> b2,
                  raised |-> b2.invalid_records_detect
                             /\ Len(b2.invalid_records) > b2.invalid_records_threshold,
                  added |-> FALSE]

\* add_record_message: [sb, raised, added]
add_record_message(b, m, valid) ==
    LET b1 == update_version(b, m.version)
    IN  IF b1.lifetime_max_version # m.version
        THEN [sb |-> b1, raised |-> FALSE, added |-> FALSE]
        ELSE IF valid
        THEN [sb |-> [b1 EXCEPT !.buffer = Append(@, m),
                                !.size = @ + get_size(m),
                                !.count = @ + 1],
              raised |-> FALSE, added |-> TRUE]
        ELSE LET b2 == [b1 EXCEPT !.invalid_records = Append(@, m.id)]
             IN  [sb |-> b2,
                  raised |-> b2.invalid_records_detect
                             /\ Len(b2.invalid_records) >= b2.invalid_records_threshold,
                  added |-> FALSE]


(***************************************************************************)
(* The batch writer (PostgresTarget.write_batch).                          *)
(*                                                                         *)
(* An operation leaves a record of what it did:                            *)
(*   op, stream : which operation on which stream                          *)
(*   outcome    : "ok" (returned) or "error" (raised PostgresError)        *)
(*   branch     : the path taken, or the cause of the failure              *)
(*   log        : the transaction statements that were executed            *)
(*   before, after : the stream's buffer at the call and at the return     *)
(*   remote, current, max_version : whether the live table has metadata,   *)
(*                its version, and the batch's max_version at the call     *)
(*   root       : root_table_name (<<>> when none was computed)            *)
(*   version    : the version argument of activate_version                 *)
(*   written    : the ids of the records the batch wrote                   *)
(*   tables_before, tables_after : the store at the call and at the return *)
(***************************************************************************)

Op(op, stream, outcome, branch, log, before, after, remote, current, max_version, root, version, written, tables_before, tables_after) ==
    [op |-> op, stream |-> stream, outcome |-> outcome, branch |-> branch,
     log |-> log, before |-> before, after |-> after, remote |-> remote,
     current |-> current, max_version |-> max_version, root |-> root,
     version |-> version, written |-> written,
     tables_before |-> tables_before, tables_after |-> tables_after]

SetMax(S) == CHOOSE x \in S : \A y \in S : y <= x

\* max_version across the batch: the greatest version that is not None.
batch_max_version(buffer) ==
    LET vs == {buffer[i].version : i \in DOMAIN buffer} \ {None}
    IN  IF vs = {} THEN None ELSE SetMax(vs)

\* `min(versions) < current_table_version` and
\* `target_table_version > current_table_version` compare None with an
\* integer, a TypeError, when the remote table has a version and a record
\* of the batch has none.
version_compare_raises(versions, current_table_version) ==
    current_table_version # None /\ None \in versions

\* root_table_name: the shadow table of the new version, or the live table.
root_table_name(stream, current_table_version, target_table_version) ==
    IF current_table_version # None /\ target_table_version > current_table_version
    THEN stream \o NESTED_SEPARATOR \o str(target_table_version)
    ELSE stream

\* SQLSchema(root_table_name, stream_buffer).get_tables()[1:]: one subtable
\* per array-valued path, named root + separator + path.
nested_tables(root, b) ==
    IF b.hasArray THEN {root \o NESTED_SEPARATOR \o ArrayPath} ELSE {}

\* upsert_table_schema: create the table when get_schema finds none.
upsert_table_schema(tables, table_name, key_properties, table_version) ==
    IF get_schema(tables, table_name) THEN tables
    ELSE create_table(tables, table_name, key_properties, table_version)

\* denest_records: the rows of the root table, one per record.
root_rows(records) ==
    {[pk |-> m.id, seq |-> m.id, lvl |-> 0, val |-> m.id] : m \in records}

\* denest_records on the array values: one row per element, _sdc_level_0_id
\* the element's index.
nested_rows(records) ==
    UNION {{[pk |-> m.id, seq |-> m.id, lvl |-> i, val |-> m.id] : i \in 0 .. (m.tags - 1)}
           : m \in records}

\* records_map[table_name] raises KeyError for a subtable no row was
\* denested into.
records_map_misses(nested, records) == nested # {} /\ nested_rows(records) = {}

\* Mutant of key_properties_differ: the lists are compared by length.
key_properties_differ_in_length(b, table_metadata) ==
    /\ table_metadata.present
    /\ Len(b.key_properties) # Len(table_metadata.key_properties)

\* `if table_metadata:` ... `set(stream_buffer.key_properties) !=
\* set(table_metadata.get('key_properties'))`
key_properties_differ(b, table_metadata) ==
    /\ table_metadata.present
    /\ Range(b.key_properties) # Range(table_metadata.key_properties)

\* Mutant of buffer_after_write: the flush moved into a `finally`.
buffer_flushed_always(b, committed) == flush_buffer(b)

\* line 157: the buffer is flushed after the try block, which a failure
\* leaves by raising.
buffer_after_write(b, committed) == IF committed THEN flush_buffer(b) ELSE b

\* The statements executed: BEGIN, then COMMIT, or ROLLBACK in the except.
write_batch_log(committed) ==
    IF committed THEN <<"BEGIN", "COMMIT">> ELSE <<"BEGIN", "ROLLBACK">>

\* Mutant of write_batch: without the return on an empty buffer.
write_batch_without_early_return(tables, txOpen, b, stream) ==
    LET versions == {b.buffer[i].version : i \in DOMAIN b.buffer}
        max_version == batch_max_version(b.buffer)
        table_metadata == get_table_metadata(tables, stream)
        current_table_version ==
            IF table_metadata.present THEN table_metadata.version ELSE None
        key_change == key_properties_differ(b, table_metadata)
        target_table_version == max_version
        root == root_table_name(stream, current_table_version, target_table_version)
        records == IF target_table_version # None
                   THEN {m \in Range(b.buffer) : m.version = target_table_version}
                   ELSE Range(b.buffer)
        nested == nested_tables(root, b)
        cause(fault) ==
            CASE fault = "statement" -> "backend"
              [] key_change -> "key_properties"
              [] version_compare_raises(versions, current_table_version) -> "TypeError"
              [] records_map_misses(nested, records) -> "KeyError"
              [] fault = "commit" -> "commit"
              [] OTHER -> "written"
        t1 == upsert_table_schema(tables, root, b.key_properties, target_table_version)
        RECURSIVE create_nested(_, _)
        create_nested(t, names) ==
            IF names = {} THEN t
            ELSE LET n == CHOOSE x \in names : TRUE
                 IN  create_nested(upsert_table_schema(t, n, <<>>, None), names \ {n})
        t2 == create_nested(t1, nested)
        result(fault, rootRows, subRows) ==
            LET c == cause(fault)
                committed == (c = "written")
                t3 == [t2 EXCEPT ![root].rows = rootRows]
                t4 == [n \in DOMAIN t3 |->
                         IF n \in nested THEN [t3[n] EXCEPT !.rows = subRows] ELSE t3[n]]
                after == buffer_after_write(b, committed)
                t5 == IF committed THEN t4 ELSE tables
            IN  [tables |-> t5,
                 txOpen |-> FALSE,
                 sb |-> after,
                 op |-> Op("write_batch", stream,
                           IF committed THEN "ok" ELSE "error", c,
                           write_batch_log(committed), b.buffer, after.buffer,
                           table_metadata.present, current_table_version, max_version,
                           IF c \in {"backend", "key_properties", "TypeError"}
                           THEN <<>> ELSE root,
                           None,
                           IF committed THEN {m.id : m \in records} ELSE {},
                           tables, t5)]
        subTarget == IF nested = {} THEN {}
                     ELSE t2[CHOOSE x \in nested : TRUE].rows
    IN  {result(fault, rr, sr) :
            fault \in {"none", "statement", "commit"},
            rr \in update_sql(t2[root].rows, root_rows(records), FALSE),
            sr \in update_sql(subTarget, nested_rows(records), TRUE)}

\* Every outcome of write_batch on buffer b of `stream`:
\* [tables, txOpen, sb, op].  `fault` is the backend's part: "none",
\* "statement" (a statement after BEGIN fails) or "commit" (COMMIT fails).
write_batch(tables, txOpen, b, stream) ==
    IF b.count = 0
    THEN {[tables |-> tables, txOpen |-> txOpen, sb |-> b,
           op |-> Op("write_batch", stream, "ok", "empty", <<>>, b.buffer, b.buffer,
                     FALSE, None, None, <<>>, None, {}, tables, tables)]}
    ELSE
    LET versions == {b.buffer[i].version : i \in DOMAIN b.buffer}
        max_version == batch_max_version(b.buffer)
        table_metadata == get_table_metadata(tables, stream)
        current_table_version ==
            IF table_metadata.present THEN table_metadata.version ELSE None
        key_change == key_properties_differ(b, table_metadata)
        target_table_version == max_version
        root == root_table_name(stream, current_table_version, target_table_version)
        records == IF target_table_version # None
                   THEN {m \in Range(b.buffer) : m.version = target_table_version}
                   ELSE Range(b.buffer)
        nested == nested_tables(root, b)
        cause(fault) ==
            CASE fault = "statement" -> "backend"
              [] key_change -> "key_properties"
              [] version_compare_raises(versions, current_table_version) -> "TypeError"
              [] records_map_misses(nested, records) -> "KeyError"
              [] fault = "commit" -> "commit"
              [] OTHER -> "written"
        t1 == upsert_table_schema(tables, root, b.key_properties, target_table_version)
        RECURSIVE create_nested(_, _)
        create_nested(t, names) ==
            IF names = {} THEN t
            ELSE LET n == CHOOSE x \in names : TRUE
                 IN  create_nested(upsert_table_schema(t, n, <<>>, None), names \ {n})
        t2 == create_nested(t1, nested)
        result(fault, rootRows, subRows) ==
            LET c == cause(fault)
                committed == (c = "written")
                t3 == [t2 EXCEPT ![root].rows = rootRows]
                t4 == [n \in DOMAIN t3 |->
                         IF n \in nested THEN [t3[n] EXCEPT !.rows = subRows] ELSE t3[n]]
                after == buffer_after_write(b, committed)
                t5 == IF committed THEN t4 ELSE tables
            IN  [tables |-> t5,
                 txOpen |-> FALSE,
                 sb |-> after,
                 op |-> Op("write_batch", stream,
                           IF committed THEN "ok" ELSE "error", c,
                           write_batch_log(committed), b.buffer, after.buffer,
                           table_metadata.present, current_table_version, max_version,
                           IF c \in {"backend", "key_properties", "TypeError"}
                           THEN <<>> ELSE root,
                           None,
                           IF committed THEN {m.id : m \in records} ELSE {},
                           tables, t5)]
        subTarget == IF nested = {} THEN {}
                     ELSE t2[CHOOSE x \in nested : TRUE].rows
    IN  {result(fault, rr, sr) :
            fault \in {"none", "statement", "commit"},
            rr \in update_sql(t2[root].rows, root_rows(records), FALSE),
            sr \in update_sql(subTarget, nested_rows(records), TRUE)}


(***************************************************************************)
(* Version activation (PostgresTarget.activate_version).                   *)
(***************************************************************************)

\* tablename LIKE versioned_root_table || '%': `_` in the pattern matches
\* any one character, `%` any rest.
like_prefix(pattern, name) ==
    /\ Len(name) >= Len(pattern)
    /\ \A i \in 1 .. Len(pattern) : pattern[i] = "_" \/ pattern[i] = name[i]

\* SELECT tablename FROM pg_tables WHERE ... tablename like ...
versioned_tables(tables, versioned_root_table) ==
    {n \in DOMAIN tables : like_prefix(versioned_root_table, n)}

\* table_name = stream + versioned_table_name[len(versioned_root_table):]
live_table_name(stream, versioned_root_table, versioned_table_name) ==
    stream \o SubSeq(versioned_table_name, Len(versioned_root_table) + 1,
                     Len(versioned_table_name))

old_table_name(table_name) == table_name \o NESTED_SEPARATOR \o <<"o", "l", "d">>

\* ALTER TABLE stream_table RENAME TO stream_table_old;
\* ALTER TABLE version_table RENAME TO stream_table;
\* DROP TABLE stream_table_old;
\* The statement fails when a table to rename does not exist or a new name
\* is taken.
swap_fails(tables, table_name, versioned_table_name) ==
    \/ table_name \notin DOMAIN tables
    \/ old_table_name(table_name) \in DOMAIN tables
    \/ versioned_table_name \notin DOMAIN tables
    \/ versioned_table_name = table_name

swap(tables, table_name, versioned_table_name) ==
    [n \in DOMAIN tables \ {versioned_table_name} |->
        IF n = table_name THEN tables[versioned_table_name] ELSE tables[n]]

\* What one execute of the per-table statement, which ends in COMMIT,
\* leaves durable: the swap, or nothing when the statement fails.
swap_statement(tables, table_name, versioned_table_name, fails) ==
    IF fails THEN tables ELSE swap(tables, table_name, versioned_table_name)

RECURSIVE swap_loop(_, _, _, _, _, _)
\* The for loop over the fetched names: [tables, log, ok, backend].
\* `failAt` is the position of the statement the backend fails, 0 for
\* none; `backend` tells a failure of the backend from a statement that
\* cannot succeed.
swap_loop(tables, stream, versioned_root_table, names, failAt, log) ==
    IF names = <<>>
    THEN [tables |-> tables, log |-> log, ok |-> TRUE, backend |-> FALSE]
    ELSE LET n == Head(names)
             table_name == live_table_name(stream, versioned_root_table, n)
             impossible == swap_fails(tables, table_name, n)
             fails == failAt = 1 \/ impossible
             t == swap_statement(tables, table_name, n, fails)
         IN  IF fails
             THEN [tables |-> t, log |-> Append(log, "ROLLBACK"), ok |-> FALSE,
                   backend |-> ~ impossible]
             ELSE swap_loop(t, stream, versioned_root_table, Tail(names),
                            failAt - 1, Append(log, "COMMIT"))

\* Mutant of table_absent_outcome: the missing table raised, not logged.
table_absent_raises == "error"

\* `if not table_metadata`: the error is logged and the method goes on to
\* return.
table_absent_outcome == "ok"

\* Every outcome of activate_version: [tables, txOpen, op].
activate_version(tables, txOpen, b, stream, version) ==
    LET table_metadata == get_table_metadata(tables, stream)
        versioned_root_table == stream \o NESTED_SEPARATOR \o str(version)
        found == versioned_tables(tables, versioned_root_table)
        done(t, open, outcome, branch, log) ==
            [tables |-> t, txOpen |-> open,
             op |-> Op("activate_version", stream, outcome, branch, log,
                       b.buffer, b.buffer, table_metadata.present,
                       table_metadata.version, None, <<>>, version, {}, tables, t)]
        swapped(names, failAt) ==
            LET r == swap_loop(tables, stream, versioned_root_table, names,
                               failAt, <<"BEGIN">>)
            IN  done(r.tables,
                     IF names = <<>> THEN TRUE ELSE FALSE,
                     IF r.ok THEN "ok" ELSE "error",
                     IF names = <<>> THEN "none_found"
                     ELSE IF r.backend THEN "swap_backend" ELSE "swap",
                     r.log)
    IN  {done(tables, FALSE, "error", "backend", <<"BEGIN", "ROLLBACK">>)}
        \cup
        (IF ~ table_metadata.present
         THEN {done(tables, table_absent_outcome = "ok", table_absent_outcome, "absent",
                    IF table_absent_outcome = "ok" THEN <<"BEGIN">>
                    ELSE <<"BEGIN", "ROLLBACK">>)}
         ELSE IF table_metadata.version = version
         THEN {done(tables, TRUE, "ok", "active", <<"BEGIN">>)}
         ELSE {swapped(names, failAt) :
                  names \in SetToSeqs(found), failAt \in 0 .. Cardinality(found)})


(***************************************************************************)
(* The state of the program.                                               *)
(***************************************************************************)
VARIABLES
    pc,               \* "running", "done" (stream_to_target returned), "failed" (it raised)
    line_count,       \* stream_to_target's line_count
    streams,          \* state_tracker.streams: the registered streams, in order
    sb,               \* the stream buffers, by stream
    tables,           \* the backing store
    txOpen,           \* the connection is inside a transaction block
    message_counter,  \* tracker: records handled so far
    add_wm,           \* tracker: per stream, the counter at its latest record
    flush_wm,         \* tracker: per stream, add_wm at its latest flush
    added_to,         \* tracker: streams that have had a record
    state_queue,      \* tracker: STATE messages not yet released
    emitted,          \* STATE messages released to the caller
    accepted,         \* history: ids of the records appended to a buffer
    discarded,        \* history: ids dropped from a buffer by a version change
    committed,        \* history: ids written by a write_batch that committed
    ops,              \* history: the operations of the latest step, in order
    up,               \* the upsert statement's tables (see the upsert specification)
    call              \* history: the latest direct call on a buffer (buffer specifications)

vars == <<pc, line_count, streams, sb, tables, txOpen, message_counter, add_wm,
          flush_wm, added_to, state_queue, emitted, accepted, discarded,
          committed, ops, up, call>>

pipeVars == <<pc, line_count, streams, sb, tables, txOpen, message_counter, add_wm,
              flush_wm, added_to, state_queue, emitted, accepted, discarded,
              committed, ops, call>>

\* The variables as one record, which the handlers transform.
World ==
    [streams |-> streams, sb |-> sb, tables |-> tables, txOpen |-> txOpen,
     message_counter |-> message_counter, add_wm |-> add_wm, flush_wm |-> flush_wm,
     added_to |-> added_to, state_queue |-> state_queue, emitted |-> emitted,
     accepted |-> accepted, discarded |-> discarded, committed |-> committed,
     ops |-> <<>>, raised |-> FALSE]

IsRegistered(w, stream) == \E i \in DOMAIN w.streams : w.streams[i] = stream

Ids(buffer) == {buffer[i].id : i \in DOMAIN buffer}

(***************************************************************************)
(* The stream tracker (StreamTracker).                                     *)
(***************************************************************************)

SetMin(S) == CHOOSE x \in S : \A y \in S : x <= y

\* The STATEs that may be released: those at the head of the queue with no
\* record read before them still waiting for a flush.
safe_flush_threshold(w) ==
    IF w.added_to = {} THEN 0 ELSE SetMin({w.flush_wm[s] : s \in w.added_to})

RECURSIVE emit_safe_queued_states(_, _)
emit_safe_queued_states(w, force) ==
    IF w.state_queue # <<>>
       /\ (force \/ Head(w.state_queue).watermark <= safe_flush_threshold(w))
    THEN emit_safe_queued_states(
             [w EXCEPT !.state_queue = Tail(@),
                       !.emitted = @ \cup {Head(w.state_queue)}], force)
    ELSE w

\* One stream's flush: write_batch, then the flush watermark moves up to
\* the stream's latest record.
write_batch_and_update_watermarks(w, stream) ==
    {[w EXCEPT !.tables = r.tables,
               !.txOpen = r.txOpen,
               !.sb[stream] = r.sb,
               !.ops = Append(@, r.op),
               !.committed = @ \cup r.op.written,
               !.flush_wm[stream] = IF r.op.outcome = "ok"
                                    THEN w.add_wm[stream] ELSE @,
               !.raised = @ \/ r.op.outcome = "error"]
     : r \in write_batch(w.tables, w.txOpen, w.sb[stream], stream)}

RECURSIVE flush_each(_, _, _)
\* The streams from position i on, in registration order; a failure is
\* kept to be surfaced and the remaining buffers are still attempted.
flush_each(w, i, force) ==
    IF i > Len(w.streams) THEN {w}
    ELSE LET stream == w.streams[i]
         IN  IF force \/ buffer_full(w.sb[stream])
             THEN UNION {flush_each(w1, i + 1, force)
                         : w1 \in write_batch_and_update_watermarks(w, stream)}
             ELSE flush_each(w, i + 1, force)

\* flush_streams: flush, then release the STATEs that have become safe.
flush_streams(w, force) ==
    {IF w1.raised THEN w1 ELSE emit_safe_queued_states(w1, force)
     : w1 \in flush_each(w, 1, force)}

\* handle_state_message
handle_state_message(w, id) ==
    IF state_support
    THEN emit_safe_queued_states(
             [w EXCEPT !.state_queue =
                  Append(@, [id |-> id, watermark |-> w.message_counter])], FALSE)
    ELSE w

\* handle_record_message: a record for an unknown stream is fatal.
handle_record_message(w, stream, version, valid, tags, size) ==
    IF ~ IsRegistered(w, stream) THEN [w EXCEPT !.raised = TRUE]
    ELSE LET id == w.message_counter + 1
             m == [id |-> id, version |-> version, tags |-> tags, size |-> size]
             r == add_record_message(w.sb[stream], m, valid)
             dropped == Ids(w.sb[stream].buffer) \ Ids(r.sb.buffer)
         IN  [w EXCEPT !.message_counter = id,
                       !.added_to = @ \cup {stream},
                       !.add_wm[stream] = id,
                       !.sb[stream] = r.sb,
                       !.accepted = IF r.added THEN @ \cup {id} ELSE @,
                       !.discarded = @ \cup dropped,
                       !.raised = r.raised]


(***************************************************************************)
(* The line handler and the loop of stream_to_target.                      *)
(***************************************************************************)

KeyProps == {<<"id">>}
RecordSizes == {1}
TagCounts == {0, 1}

\* _line_handler, SCHEMA: register a new buffer or update the schema.
schema_line(w, stream, hasArray, key_properties) ==
    IF ~ IsRegistered(w, stream)
    THEN [w EXCEPT !.streams = Append(@, stream),
                   !.sb[stream] = BufferedSingerStream(hasArray, key_properties),
                   !.flush_wm[stream] = 0]
    ELSE [w EXCEPT !.sb[stream] = update_schema(@, hasArray, key_properties)]

\* Mutant of activate_version_line: the stream is not looked up first.
activate_version_line_unchecked(w, stream, version) ==
    UNION
    {IF r.op.outcome = "error"
     THEN {[w EXCEPT !.sb[stream] = r.sb, !.tables = r.tables,
                     !.txOpen = r.txOpen, !.ops = Append(@, r.op),
                     !.raised = TRUE]}
     ELSE {[w EXCEPT !.sb[stream] = r.sb, !.tables = a.tables,
                     !.txOpen = a.txOpen,
                     !.ops = @ \o <<r.op, a.op>>,
                     !.committed = @ \cup r.op.written,
                     !.raised = a.op.outcome = "error"]
           : a \in activate_version(r.tables, r.txOpen, r.sb, stream, version)}
     : r \in write_batch(w.tables, w.txOpen, w.sb[stream], stream)}

\* _line_handler, ACTIVATE_VERSION: write the stream's batch, then activate.
activate_version_line(w, stream, version) ==
    IF ~ IsRegistered(w, stream) THEN {[w EXCEPT !.raised = TRUE]}
    ELSE UNION
         {IF r.op.outcome = "error"
          THEN {[w EXCEPT !.sb[stream] = r.sb, !.tables = r.tables,
                          !.txOpen = r.txOpen, !.ops = Append(@, r.op),
                          !.raised = TRUE]}
          ELSE {[w EXCEPT !.sb[stream] = r.sb, !.tables = a.tables,
                          !.txOpen = a.txOpen,
                          !.ops = @ \o <<r.op, a.op>>,
                          !.committed = @ \cup r.op.written,
                          !.raised = a.op.outcome = "error"]
                : a \in activate_version(r.tables, r.txOpen, r.sb, stream, version)}
          : r \in write_batch(w.tables, w.txOpen, w.sb[stream], stream)}

\* Mutant of probe: the buffers are probed every second threshold only.
probe_every_second_threshold(w) ==
    IF ~ w.raised /\ line_count > 0 /\ line_count % (2 * batch_detection_threshold) = 0
    THEN flush_streams(w, FALSE)
    ELSE {w}

\* The rest of one loop iteration: the periodic probe for full buffers.
probe(w) ==
    IF ~ w.raised /\ line_count > 0 /\ line_count % batch_detection_threshold = 0
    THEN flush_streams(w, FALSE)
    ELSE {w}

\* The step to world w: an exception ends stream_to_target.
Become(w, next_pc) ==
    /\ pc' = IF w.raised THEN "failed" ELSE next_pc
    /\ streams' = w.streams
    /\ sb' = w.sb
    /\ tables' = w.tables
    /\ txOpen' = w.txOpen
    /\ message_counter' = w.message_counter
    /\ add_wm' = w.add_wm
    /\ flush_wm' = w.flush_wm
    /\ added_to' = w.added_to
    /\ state_queue' = w.state_queue
    /\ emitted' = w.emitted
    /\ accepted' = w.accepted
    /\ discarded' = w.discarded
    /\ committed' = w.committed
    /\ ops' = w.ops
    /\ UNCHANGED <<up, call>>

Reading == pc = "running" /\ line_count < MaxLines

SchemaLine ==
    /\ Reading
    /\ \E stream \in Streams, hasArray \in BOOLEAN, key_properties \in KeyProps :
         \E w \in probe(schema_line(World, stream, hasArray, key_properties)) :
            Become(w, "running")
    /\ line_count' = line_count + 1

RecordLine ==
    /\ Reading
    /\ \E stream \in Streams, version \in Versions \cup {None}, valid \in BOOLEAN,
          tags \in TagCounts, size \in RecordSizes :
         \E w \in probe(handle_record_message(World, stream, version, valid, tags, size)) :
            Become(w, "running")
    /\ line_count' = line_count + 1

ActivateVersionLine ==
    /\ Reading
    /\ \E stream \in Streams, version \in Versions :
         \E w1 \in activate_version_line(World, stream, version) :
            \E w \in probe(w1) : Become(w, "running")
    /\ line_count' = line_count + 1

StateLine ==
    /\ Reading
    /\ \E w \in probe(handle_state_message(World, line_count)) : Become(w, "running")
    /\ line_count' = line_count + 1

\* _line_handler, a line of any other type: TargetError, which
\* stream_to_target logs and raises again.  `call` keeps the type of the
\* line that ended the run.
UnknownLine ==
    /\ Reading
    /\ pc' = "failed"
    /\ call' = [op |-> "_line_handler", type |-> "UNKNOWN"]
    /\ ops' = <<>>
    /\ UNCHANGED <<line_count, streams, sb, tables, txOpen, message_counter, add_wm, flush_wm, added_to, state_queue, emitted, accepted, discarded, committed, up>>

\* Mutant of EndOfInput: the final flush is not forced.
EndOfInput_unforced ==
    /\ pc = "running"
    /\ \E w \in flush_streams(World, FALSE) : Become(w, "done")
    /\ UNCHANGED line_count

\* End of input: every buffer is flushed, then every STATE released.
EndOfInput ==
    /\ pc = "running"
    /\ \E w \in flush_streams(World, TRUE) : Become(w, "done")
    /\ UNCHANGED line_count

\* The store the program starts on: empty, or holding the live table of
\* stream a that an earlier run left, at version 1 or without a version.
EarlierRow == [pk |-> 0, seq |-> 0, lvl |-> 0, val |-> 0]

InitialStores ==
    {<<>>}
    \cup {StreamA :> [meta |-> Comment(<<"id">>, v), rows |-> {EarlierRow}]
          : v \in {None, 1}}

NoCall == [op |-> "none"]

UpIdle == [pc |-> "idle", subkeys |-> FALSE, target |-> {}, temp |-> {}, before |-> {}]

Init ==
    /\ pc = "running"
    /\ line_count = 0
    /\ streams = <<>>
    /\ sb = [s \in Streams |-> NoStream]
    /\ tables \in InitialStores
    /\ txOpen = FALSE
    /\ message_counter = 0
    /\ add_wm = [s \in Streams |-> 0]
    /\ flush_wm = [s \in Streams |-> 0]
    /\ added_to = {}
    /\ state_queue = <<>>
    /\ emitted = {}
    /\ accepted = {}
    /\ discarded = {}
    /\ committed = {}
    /\ ops = <<>>
    /\ up = UpIdle
    /\ call = NoCall

Next ==
    \/ SchemaLine
    \/ RecordLine
    \/ ActivateVersionLine
    \/ StateLine
    \/ UnknownLine
    \/ EndOfInput

Spec == Init /\ [][Next]_vars


(***************************************************************************)
(* Properties of the pipeline: STATE release, transactions, activation.    *)
(***************************************************************************)

WriteOps == {ops[i] : i \in {j \in DOMAIN ops : ops[j].op = "write_batch"}}
ActivateOps == {ops[i] : i \in {j \in DOMAIN ops : ops[j].op = "activate_version"}}
Count(log, x) == Cardinality({i \in DOMAIN log : log[i] = x})
ShadowOf(stream, version) == stream \o NESTED_SEPARATOR \o str(version)

\* C1, as stated: every record that was taken into a buffer before a
\* released STATE was read has been written by a committed write_batch.
C1_Original ==
    \A st \in emitted : \A id \in accepted :
        id <= st.watermark => id \in committed

\* C1, amended: every record that was taken into a buffer before a released
\* STATE was read has been written by a committed write_batch, or was
\* dropped from its buffer by a later record of a newer table version.
C1_StateAfterCommit ==
    \A st \in emitted : \A id \in accepted :
        id <= st.watermark => id \in committed \cup discarded

\* A STATE is released while input is still being read, after a record read
\* before it was committed.
C1_Witness ==
    /\ pc = "running"
    /\ \E st \in emitted : \E id \in committed : id <= st.watermark

C3_Original ==
    \A i \in DOMAIN ops :
        LET o == ops[i]
        IN  \/ o.log = <<>>
            \/ /\ o.outcome = "ok"
               /\ o.log = <<"BEGIN", "COMMIT">>
            \/ /\ o.outcome = "error"
               /\ o.log = <<"BEGIN", "ROLLBACK">>

\* C4, as stated: an activate_version that raises has swapped no table.
C4_Original ==
    \A o \in ActivateOps :
        o.outcome = "error" => o.tables_after = o.tables_before

\* C5, as stated: a committed batch of a version above the live table's
\* goes to the shadow table and leaves the live table as it was; an
\* activation of that version, the backend not failing, leaves the live
\* name holding the shadow table's rows at that version, and neither the
\* shadow nor the `old` name in the store.
C5_Original ==
    /\ \A o \in WriteOps :
          (/\ o.branch = "written"
           /\ o.remote
           /\ o.current # None
           /\ o.max_version # None
           /\ o.max_version > o.current)
          => LET shadow == ShadowOf(o.stream, o.max_version)
             IN  /\ o.root = shadow
                 /\ shadow \in DOMAIN o.tables_after
                 /\ o.written \subseteq {r.pk : r \in o.tables_after[shadow].rows}
                 /\ o.tables_after[shadow].meta.version = o.max_version
                 /\ o.tables_after[o.stream] = o.tables_before[o.stream]
    /\ \A o \in ActivateOps :
          LET shadow == ShadowOf(o.stream, o.version)
          IN  (/\ o.branch \notin {"backend", "swap_backend"}
               /\ o.remote
               /\ o.current # None
               /\ o.version > o.current
               /\ shadow \in DOMAIN o.tables_before)
              => /\ o.stream \in DOMAIN o.tables_after
                 /\ o.tables_after[o.stream].rows = o.tables_before[shadow].rows
                 /\ o.tables_after[o.stream].meta.version = o.version
                 /\ shadow \notin DOMAIN o.tables_after
                 /\ old_table_name(o.stream) \notin DOMAIN o.tables_after

\* C6: an activate_version that finds no live table, or finds the version
\* already active, returns without error and leaves the store as it was; so
\* does an activation that repeats the one of the line before.
C6_NoOpActivation ==
    [][\A o \in {ops'[i] : i \in {j \in DOMAIN ops' : ops'[j].op = "activate_version"}} :
          /\ o.branch \in {"absent", "active"} =>
                /\ o.outcome = "ok"
                /\ o.tables_after = o.tables_before
          /\ (/\ o.branch \notin {"backend", "swap_backend"}
              /\ \E p \in ActivateOps :
                    /\ p.outcome = "ok"
                    /\ p.stream = o.stream
                    /\ p.version = o.version) =>
                /\ o.outcome = "ok"
                /\ o.tables_after = o.tables_before]_vars

\* An activation of version 2 found version 2 already active.
C6_Witness ==
    \E o \in ActivateOps :
        /\ o.branch = "active"
        /\ o.version = 2
        /\ o.stream \in DOMAIN o.tables_before

\* C7, as stated: the batch goes to the shadow table of its max_version
\* exactly when the remote table has a version below it; in every other
\* case, the backend not failing and the key properties matching, it goes
\* to the live table and the write succeeds.
C7_Original ==
    \A o \in WriteOps :
        o.branch \in {"written", "TypeError"} =>
            IF /\ o.remote
               /\ o.current # None
               /\ o.max_version # None
               /\ o.max_version > o.current
            THEN o.root = ShadowOf(o.stream, o.max_version)
            ELSE o.root = o.stream /\ o.outcome = "ok"


(***************************************************************************)
(* The upsert statement on its own: persist_rows loads a batch's rows into *)
(* the staging table and executes get_update_sql's statement against the   *)
(* target.  `up` holds                                                     *)
(*   pc      : "idle", "loaded" (rows copied into the staging table) or    *)
(*             "merged" (statement executed)                               *)
(*   subkeys : the table has _sdc_level_<n>_id columns (a subtable)        *)
(*   target, temp : the rows of the target and of the staging table        *)
(*   before  : the target's rows when the statement started                *)
(***************************************************************************)

\* The values of the key column and of the other columns of a row.
Keys == {1, 2}
Vals == {"A", "B"}

RootRowSpace == [pk : Keys, seq : 1 .. MaxSeq, lvl : {0}, val : Vals]
SubRowSpace == [pk : Keys, seq : 1 .. MaxSeq, lvl : {0, 1}, val : {"A"}]

RowSpace(subkeys) == IF subkeys THEN SubRowSpace ELSE RootRowSpace

Batches(subkeys) ==
    {t \in SUBSET RowSpace(subkeys) : Cardinality(t) \in 1 .. MaxTemp}

\* COPY ... FROM STDIN into a fresh staging table.
CopyBatch ==
    /\ up.pc = "idle"
    /\ \E subkeys \in BOOLEAN :
         /\ up.target # {} => subkeys = up.subkeys
         /\ \E temp \in Batches(subkeys) :
              up' = [pc |-> "loaded", subkeys |-> subkeys,
                     target |-> up.target, temp |-> temp, before |-> {}]
    /\ UNCHANGED pipeVars

\* cur.execute(update_sql): DELETE, INSERT, DROP TABLE temp.
ExecuteUpdate ==
    /\ up.pc = "loaded"
    /\ \E target \in update_sql(up.target, up.temp, up.subkeys) :
         up' = [up EXCEPT !.pc = "merged", !.target = target, !.before = up.target]
    /\ UNCHANGED pipeVars

\* persist_rows returns: the statement has dropped the staging table, and
\* the next batch meets the target as merged.
PersistRowsReturn ==
    /\ up.pc = "merged"
    /\ up' = [up EXCEPT !.pc = "idle", !.temp = {}, !.before = {}]
    /\ UNCHANGED pipeVars

InitUpsert ==
    /\ pc = "running"
    /\ line_count = 0
    /\ streams = <<>>
    /\ sb = [s \in Streams |-> NoStream]
    /\ tables = <<>>
    /\ txOpen = FALSE
    /\ message_counter = 0
    /\ add_wm = [s \in Streams |-> 0]
    /\ flush_wm = [s \in Streams |-> 0]
    /\ added_to = {}
    /\ state_queue = <<>>
    /\ emitted = {}
    /\ accepted = {}
    /\ discarded = {}
    /\ committed = {}
    /\ ops = <<>>
    /\ up = UpIdle
    /\ call = NoCall

NextUpsert ==
    \/ CopyBatch
    \/ ExecuteUpdate
    \/ PersistRowsReturn

SpecUpsert == InitUpsert /\ [][NextUpsert]_vars


(***************************************************************************)
(* Properties of the upsert statement (specification SpecUpsert).          *)
(***************************************************************************)

RowsOf(T, p) == {r \in T : r.pk = p}
KeysOf(T) == {r.pk : r \in T}
TopSeq(T) == SetMax({r.seq : r \in T})

\* R takes from the staging rows T one row of highest sequence for each
\* distinct-on group, and nothing else.
IsTopSelection(R, T, subkeys) ==
    /\ R \subseteq T
    /\ \A t \in T : \E r \in R :
          /\ distinct_on(r, subkeys) = distinct_on(t, subkeys)
          /\ r.seq >= t.seq
    /\ \A r1, r2 \in R :
          distinct_on(r1, subkeys) = distinct_on(r2, subkeys) => r1 = r2

Merged == up.pc = "merged"

\* Some staging row of key p is at least as new as a row the target held.
Newer(p) ==
    \E t \in RowsOf(up.temp, p), b \in RowsOf(up.before, p) : t.seq >= b.seq

\* The keys that two or more records of the batch share.
SharedKeys == {p \in KeysOf(up.temp) : Cardinality(RowsOf(up.temp, p)) >= 2}

\* C8 as claimed: for a batch with two or more records of one key, the root
\* table afterwards holds exactly one row for the key, the row of the
\* batch's record of highest _sdc_sequence.
C8_Original ==
    (Merged /\ ~ up.subkeys) =>
        \A p \in SharedKeys :
            \E r \in RowsOf(up.temp, p) :
                /\ RowsOf(up.target, p) = {r}
                /\ r.seq = TopSeq(RowsOf(up.temp, p))

\* C8 amended: for a batch with two or more records of one key, the root
\* table afterwards holds exactly one row for the key: the row of a batch
\* record of highest _sdc_sequence, unless the table already held a row for
\* the key with a sequence above every record of the batch, which is kept.
C8_HighestSequenceWins ==
    (Merged /\ ~ up.subkeys) =>
        \A p \in SharedKeys :
            IF \E b \in RowsOf(up.before, p) : b.seq > TopSeq(RowsOf(up.temp, p))
            THEN RowsOf(up.target, p) = RowsOf(up.before, p)
                 /\ Cardinality(RowsOf(up.target, p)) = 1
            ELSE \E r \in RowsOf(up.temp, p) :
                    /\ RowsOf(up.target, p) = {r}
                    /\ r.seq = TopSeq(RowsOf(up.temp, p))

\* C8 witness: a batch with two records of one key and different sequences
\* has been merged into a root table that held an older row of the key.
C8_Witness ==
    /\ Merged /\ ~ up.subkeys
    /\ \E p \in SharedKeys :
          /\ \E t1, t2 \in RowsOf(up.temp, p) : t1.seq < t2.seq
          /\ \E b \in RowsOf(up.before, p) : b.seq <= TopSeq(RowsOf(up.temp, p))
          /\ RowsOf(up.target, p) # RowsOf(up.before, p)

C10_Original ==
    Merged =>
        \A p \in KeysOf(up.temp) :
            IsTopSelection(RowsOf(up.target, p), RowsOf(up.temp, p), up.subkeys)

\* C10 amended: after the statement every key present in the staging table
\* is represented in the target: by exactly the highest-sequence staging
\* row (one for each distinct-on group of the key) when the target held no
\* row of the key or a staging row's sequence is >= a held row's, and
\* otherwise by the rows the target already held for the key.
C10_EveryStagedKeyRepresented ==
    Merged =>
        \A p \in KeysOf(up.temp) :
            /\ RowsOf(up.target, p) # {}
            /\ IF RowsOf(up.before, p) = {} \/ Newer(p)
               THEN IsTopSelection(RowsOf(up.target, p), RowsOf(up.temp, p), up.subkeys)
               ELSE RowsOf(up.target, p) = RowsOf(up.before, p)

\* C10 witness: a statement that inserted the highest of two staging rows
\* for a key the target did not hold.
C10_Witness ==
    /\ Merged
    /\ \E p \in KeysOf(up.temp) \ KeysOf(up.before) :
          /\ \E t1, t2 \in RowsOf(up.temp, p) : t1.seq < t2.seq
          /\ \E r \in up.target : r.pk = p /\ r.seq = TopSeq(RowsOf(up.temp, p))

(***************************************************************************)
(* One stream buffer on its own: a BufferedSingerStream is constructed and *)
(* then driven call by call (add_record_message, update_schema,            *)
(* flush_buffer).  The buffer is sb[StreamA]; `call` holds the latest call *)
(*   op      : the method called                                           *)
(*   before  : the buffer at the call                                      *)
(*   message, valid : the record message, and whether it validates         *)
(*   raised, added  : the call raised; the record was appended             *)
(*   n       : calls made so far                                           *)
(*   raised_before : an earlier call raised                                *)
(***************************************************************************)
MaxCalls == 3          \* calls made on the buffer

BufferSizes == {1, 2}
BufferKeyProps == {<<"id">>, <<>>}
BufferLimits(most) == {1, most}
BufferThresholds == {0, invalid_records_threshold}

Called(op, message, valid, raised, added) ==
    [op |-> op, before |-> sb[StreamA], message |-> message, valid |-> valid,
     raised |-> raised, added |-> added, n |-> call.n + 1,
     raised_before |-> call.raised_before \/ call.raised]

NoMessage == [id |-> 0, version |-> None, tags |-> 0, size |-> 0]

bufferVars == <<pc, line_count, streams, tables, txOpen, add_wm, flush_wm,
                added_to, state_queue, emitted, accepted, discarded, committed,
                ops, up>>

BufferAdd ==
    /\ call.n < MaxCalls
    /\ \E version \in Versions \cup {None}, valid \in BOOLEAN, size \in BufferSizes :
         LET m == [id |-> message_counter + 1, version |-> version,
                   tags |-> 0, size |-> size]
             r == add_record_message(sb[StreamA], m, valid)
         IN  /\ sb' = [sb EXCEPT ![StreamA] = r.sb]
             /\ call' = Called("add_record_message", m, valid, r.raised, r.added)
    /\ message_counter' = message_counter + 1
    /\ UNCHANGED bufferVars

BufferUpdateSchema ==
    /\ call.n < MaxCalls
    /\ \E hasArray \in BOOLEAN, key_properties \in BufferKeyProps :
         sb' = [sb EXCEPT ![StreamA] = update_schema(@, hasArray, key_properties)]
    /\ call' = Called("update_schema", NoMessage, TRUE, FALSE, FALSE)
    /\ UNCHANGED <<bufferVars, message_counter>>

BufferFlush ==
    /\ call.n < MaxCalls
    /\ sb' = [sb EXCEPT ![StreamA] = flush_buffer(@)]
    /\ call' = Called("flush_buffer", NoMessage, TRUE, FALSE, FALSE)
    /\ UNCHANGED <<bufferVars, message_counter>>

InitBuffer ==
    /\ pc = "running"
    /\ line_count = 0
    /\ streams = <<StreamA>>
    /\ \E detect \in BOOLEAN, threshold \in BufferThresholds,
          rows \in BufferLimits(max_batch_rows), bytes \in BufferLimits(max_batch_size) :
         sb = [s \in Streams |->
                 IF s = StreamA
                 THEN BufferedSingerStreamWith(FALSE, <<"id">>, detect, threshold,
                                               rows, bytes)
                 ELSE NoStream]
    /\ tables = <<>>
    /\ txOpen = FALSE
    /\ message_counter = 0
    /\ add_wm = [s \in Streams |-> 0]
    /\ flush_wm = [s \in Streams |-> 0]
    /\ added_to = {}
    /\ state_queue = <<>>
    /\ emitted = {}
    /\ accepted = {}
    /\ discarded = {}
    /\ committed = {}
    /\ ops = <<>>
    /\ up = UpIdle
    /\ call = [op |-> "__init__", before |-> NoStream, message |-> NoMessage,
               valid |-> TRUE, raised |-> FALSE, added |-> FALSE, n |-> 0,
               raised_before |-> FALSE]

NextBuffer ==
    \/ BufferAdd
    \/ BufferUpdateSchema
    \/ BufferFlush

SpecBuffer == InitBuffer /\ [][NextBuffer]_vars

(***************************************************************************)
(* Properties of the stream buffer (specification SpecBuffer).             *)
(***************************************************************************)

Buffer == sb[StreamA]
Added == call.op = "add_record_message"

\* The record's version is above lifetime_max_version, or is the first.
NewerVersion ==
    /\ call.message.version # None
    /\ \/ call.before.lifetime_max_version = None
       \/ call.message.version > call.before.lifetime_max_version

\* The record's version is below lifetime_max_version.
LowerVersion ==
    /\ call.message.version # None
    /\ call.before.lifetime_max_version # None
    /\ call.message.version < call.before.lifetime_max_version

\* The record is stale: its version is lower, or absent while one is set.
StaleVersion ==
    /\ call.before.lifetime_max_version # None
    /\ \/ call.message.version = None
       \/ call.message.version < call.before.lifetime_max_version

\* C12: a record of a newer (or the first) version empties the buffer and
\* sets lifetime_max_version to its version before it is validated and
\* buffered, so that afterwards the buffer holds that record alone when it
\* validates and nothing when it does not; a record of a lower version
\* leaves the buffer as it was.
C12_NewerVersionDropsBuffer ==
    Added =>
        /\ NewerVersion =>
              /\ Buffer.lifetime_max_version = call.message.version
              /\ IF call.valid
                 THEN /\ Buffer.buffer = <<call.message>>
                      /\ Buffer.count = 1
                      /\ Buffer.size = call.message.size
                 ELSE /\ Buffer.buffer = <<>>
                      /\ Buffer.count = 0
                      /\ Buffer.size = 0
        /\ LowerVersion =>
              /\ ~ call.added
              /\ Buffer.buffer = call.before.buffer
              /\ Buffer.lifetime_max_version = call.before.lifetime_max_version

\* A record of a newer version arrived at a buffer holding records, and a
\* record of a lower version arrived afterwards.
C12_Witness ==
    /\ Added /\ LowerVersion
    /\ call.before.buffer # <<>>
    /\ call.before.lifetime_max_version = 2
    /\ call.before.buffer[1].id > 1

\* C13: every record in the buffer has the version lifetime_max_version,
\* None included.
C13_BufferOfOneVersion ==
    \A i \in DOMAIN Buffer.buffer :
        Buffer.buffer[i].version = Buffer.lifetime_max_version

\* The buffer holds a version-2 record after the version moved up from a
\* buffer that held records.
C13_Witness ==
    /\ Added /\ NewerVersion
    /\ call.before.buffer # <<>>
    /\ Buffer.buffer # <<>>

\* C14: a stale record leaves count, size, contents, lifetime_max_version
\* and invalid_records as they were, and nothing is raised.
C14_StaleDropChangesNothing ==
    (Added /\ StaleVersion) =>
        /\ Buffer = call.before
        /\ ~ call.added
        /\ ~ call.raised

\* A record that does not validate and has no version was dropped by a
\* buffer at version 1 that holds a record.
C14_Witness ==
    /\ Added /\ StaleVersion
    /\ call.message.version = None
    /\ ~ call.valid
    /\ call.before.count > 0

\* C15: buffer_full is true exactly when count >= max_rows, or count > 0
\* and size >= max_buffer_size; an empty buffer with max_rows > 0 is not
\* full.
C15_BufferFull ==
    /\ buffer_full(Buffer) <=>
          \/ Buffer.count >= Buffer.max_rows
          \/ Buffer.count > 0 /\ Buffer.size >= Buffer.max_buffer_size
    /\ (Buffer.count = 0 /\ Buffer.max_rows > 0) => ~ buffer_full(Buffer)

\* A buffer below its row limit is full by size; its row limit is 2.
C15_Witness ==
    /\ buffer_full(Buffer)
    /\ Buffer.count < Buffer.max_rows
    /\ Buffer.count > 0

\* C16, as stated: a record that does not validate is appended to
\* invalid_records and leaves buffer, count and size as they were before
\* the call; the call raises exactly when invalid_records_detect is true
\* and invalid_records has reached invalid_records_threshold.
C16_Original ==
    (Added /\ ~ call.valid /\ ~ StaleVersion) =>
        /\ Buffer.invalid_records = Append(call.before.invalid_records, call.message.id)
        /\ Buffer.buffer = call.before.buffer
        /\ Buffer.count = call.before.count
        /\ Buffer.size = call.before.size
        /\ call.raised <=>
              /\ Buffer.invalid_records_detect
              /\ Len(Buffer.invalid_records) >= Buffer.invalid_records_threshold

\* C16, amended: a record that does not validate is appended to
\* invalid_records and does not enter the buffer: buffer, count and size
\* are as they were before the call, or empty and 0 when the record's
\* version is newer than lifetime_max_version; the call raises exactly when
\* invalid_records_detect is true and invalid_records has reached
\* invalid_records_threshold.
C16_InvalidRecordKeptApart ==
    (Added /\ ~ call.valid /\ ~ StaleVersion) =>
        /\ Buffer.invalid_records = Append(call.before.invalid_records, call.message.id)
        /\ ~ call.added
        /\ IF NewerVersion
           THEN Buffer.buffer = <<>> /\ Buffer.count = 0 /\ Buffer.size = 0
           ELSE /\ Buffer.buffer = call.before.buffer
                /\ Buffer.count = call.before.count
                /\ Buffer.size = call.before.size
        /\ call.raised <=>
              /\ Buffer.invalid_records_detect
              /\ Len(Buffer.invalid_records) >= Buffer.invalid_records_threshold

\* The second record that does not validate raised at threshold 2, the
\* first having been tolerated.
C16_Witness ==
    /\ Added /\ ~ call.valid /\ call.raised /\ ~ call.raised_before
    /\ Buffer.invalid_records_threshold = 2
    /\ Len(Buffer.invalid_records) = 2

\* C17, as stated: with detection on and threshold 2, the invalid-records
\* error is first raised by the third record that does not validate and
\* carries all three.
C17_Original ==
    (/\ Added /\ call.raised /\ ~ call.raised_before
     /\ Buffer.invalid_records_detect
     /\ Buffer.invalid_records_threshold = invalid_records_threshold)
    => Len(Buffer.invalid_records) = invalid_records_threshold + 1

(***************************************************************************)
(* One stream and the target on their own: SCHEMA lines declare            *)
(* key_properties, records are added to the buffer, and write_batch is     *)
(* called on it, against a store that is empty or holds the stream's       *)
(* table.  `call` holds                                                    *)
(*   op       : "schema", "record" or "write_batch", the latest step       *)
(*   declared : the key_properties of the SCHEMA lines so far, in order    *)
(*   first    : the step is the first write_batch of a batch with records  *)
(*              since the latest SCHEMA line                               *)
(*   written  : such a write_batch has been called since the latest SCHEMA *)
(*   n        : steps so far                                               *)
(***************************************************************************)
MaxSteps == 4          \* steps of the key_properties specification

DeclaredKeyProps == {<<"id">>, <<"k">>, <<>>}

keysVars == <<pc, line_count, add_wm, flush_wm, added_to, state_queue, emitted,
              accepted, discarded, committed, up>>

KeysSchema ==
    /\ call.n < MaxSteps
    /\ \E key_properties \in DeclaredKeyProps :
         LET w == schema_line(World, StreamA, FALSE, key_properties)
         IN  /\ streams' = w.streams
             /\ sb' = w.sb
             /\ call' = [op |-> "schema",
                         declared |-> Append(call.declared, key_properties),
                         first |-> FALSE, written |-> FALSE, n |-> call.n + 1]
    /\ ops' = <<>>
    /\ UNCHANGED <<keysVars, tables, txOpen, message_counter>>

KeysRecord ==
    /\ call.n < MaxSteps
    /\ IsRegistered(World, StreamA)
    /\ \E version \in {None, 1} :
         LET m == [id |-> message_counter + 1, version |-> version,
                   tags |-> 0, size |-> 1]
         IN  sb' = [sb EXCEPT ![StreamA] = add_record_message(@, m, TRUE).sb]
    /\ message_counter' = message_counter + 1
    /\ call' = [call EXCEPT !.op = "record", !.first = FALSE, !.n = @ + 1]
    /\ ops' = <<>>
    /\ UNCHANGED <<keysVars, streams, tables, txOpen>>

KeysWrite ==
    /\ call.n < MaxSteps
    /\ IsRegistered(World, StreamA)
    /\ \E r \in write_batch(tables, txOpen, sb[StreamA], StreamA) :
         /\ tables' = r.tables
         /\ txOpen' = r.txOpen
         /\ sb' = [sb EXCEPT ![StreamA] = r.sb]
         /\ ops' = <<r.op>>
    /\ call' = [call EXCEPT !.op = "write_batch",
                            !.first = ~ call.written /\ sb[StreamA].count > 0,
                            !.written = @ \/ sb[StreamA].count > 0,
                            !.n = @ + 1]
    /\ UNCHANGED <<keysVars, streams, message_counter>>

InitKeys ==
    /\ pc = "running"
    /\ line_count = 0
    /\ streams = <<>>
    /\ sb = [s \in Streams |-> NoStream]
    /\ tables \in InitialStores
    /\ txOpen = FALSE
    /\ message_counter = 0
    /\ add_wm = [s \in Streams |-> 0]
    /\ flush_wm = [s \in Streams |-> 0]
    /\ added_to = {}
    /\ state_queue = <<>>
    /\ emitted = {}
    /\ accepted = {}
    /\ discarded = {}
    /\ committed = {}
    /\ ops = <<>>
    /\ up = UpIdle
    /\ call = [op |-> "none", declared |-> <<>>, first |-> FALSE,
               written |-> FALSE, n |-> 0]

NextKeys ==
    \/ KeysSchema
    \/ KeysRecord
    \/ KeysWrite

SpecKeys == InitKeys /\ [][NextKeys]_vars


(***************************************************************************)
(* Properties of key_properties (specification SpecKeys).                  *)
(***************************************************************************)

\* The latest SCHEMA line declares a set of key_properties other than an
\* earlier, non-empty one.
Drifted ==
    \E i \in DOMAIN call.declared :
        /\ i < Len(call.declared)
        /\ call.declared[i] # <<>>
        /\ Range(call.declared[Len(call.declared)]) # Range(call.declared[i])

-----------------------------------------------------------------------------
\* Record denesting (postgres.py, lines 229-300; sql_base.py, lines 175-290,
\* holds the same three functions as module functions).
\*
\* A JSON value is a record of one shape: t is its Python type ("NoneType",
\* "int", "str", "dict" or "list"), i and s its integer or string value, items
\* the members of a dict in insertion order or the elements of a list, and k
\* the key under which the value is stored in the dict that holds it.

SEPARATOR == "__"
SINGER_SEQUENCE == "_sdc_sequence"
SINGER_SOURCE_PK_PREFIX == "_sdc_source_key_"
SINGER_VALUE == "_sdc_value"

\* SINGER_LEVEL.format(level)
SINGER_LEVEL(level) == "_sdc_level_" \o Digit(level) \o "_id"

JsonNone == [t |-> "NoneType", k |-> "", i |-> 0, s |-> "", items |-> <<>>]
JsonInt(i) == [JsonNone EXCEPT !.t = "int", !.i = i]
JsonStr(s) == [JsonNone EXCEPT !.t = "str", !.s = s]
JsonList(items) == [JsonNone EXCEPT !.t = "list", !.items = items]
JsonDict(items) == [JsonNone EXCEPT !.t = "dict", !.items = items]

\* value stored under key
Keyed(key, value) == [value EXCEPT !.k = key]

\* `key in d`, `d[key]` and `d[key] = value` on the members of a dict: an
\* assignment replaces the member in place or appends a new one.
dict_has(d, key) == \E n \in DOMAIN d : d[n].k = key

dict_get(d, key) == d[CHOOSE n \in DOMAIN d : d[n].k = key]

dict_set(d, key, value) ==
    IF dict_has(d, key)
    THEN [n \in DOMAIN d |-> IF d[n].k = key THEN Keyed(key, value) ELSE d[n]]
    ELSE Append(d, Keyed(key, value))

\* The outcome of a denesting call: whether it raised, records_map, and the
\* row being filled (parent_record, denested_record).
Denested(records_map, parent) ==
    [raised |-> FALSE, records_map |-> records_map, parent |-> parent]

DenestRaised(records_map) ==
    [raised |-> TRUE, records_map |-> records_map, parent |-> <<>>]

\* records_map[table_name].append(denested_record), the list created on the
\* first row. Beside the row the entry keeps, as history, the level the row
\* was denested at and `source`: the position of its root record in the batch
\* followed by the position of each array element the row descends from.
records_map_append(records_map, table_name, denested_record, level, source) ==
    LET entry == [row |-> denested_record, level |-> level, source |-> source]
    IN  IF table_name \in DOMAIN records_map
        THEN [records_map EXCEPT ![table_name] = Append(@, entry)]
        ELSE records_map @@ (table_name :> <<entry>>)

\* Mutant of sub_pk_fks: the parent's keys are not copied.
sub_pk_fks_without_copy(pk_fks, level, row_index) ==
    dict_set(<<>>, SINGER_LEVEL(level), JsonInt(row_index))

\* lines 289-290: record_pk_fks = pk_fks.copy();
\* record_pk_fks[SINGER_LEVEL.format(level)] = row_index
sub_pk_fks(pk_fks, level, row_index) ==
    dict_set(pk_fks, SINGER_LEVEL(level), JsonInt(row_index))

RECURSIVE merge_items(_, _, _)
\* lines 291-292: for key, value in record_pk_fks.items(): record[key] = value
merge_items(record_items, record_pk_fks, n) ==
    IF n > Len(record_pk_fks) THEN record_items
    ELSE merge_items(dict_set(record_items, record_pk_fks[n].k, record_pk_fks[n]),
                     record_pk_fks, n + 1)

RECURSIVE top_pk_fks(_, _, _, _)
\* lines 295-297: record_pk_fks[SINGER_SOURCE_PK_PREFIX + key] = record[key]
\* for each key of key_properties.
top_pk_fks(record_items, key_properties, record_pk_fks, n) ==
    IF n > Len(key_properties) THEN record_pk_fks
    ELSE top_pk_fks(record_items, key_properties,
                    dict_set(record_pk_fks,
                             SINGER_SOURCE_PK_PREFIX \o key_properties[n],
                             dict_get(record_items, key_properties[n])),
                    n + 1)

RECURSIVE denest_subrecord_items(_, _, _, _, _, _, _, _, _, _)
RECURSIVE denest_record_items(_, _, _, _, _, _, _, _, _, _)
RECURSIVE denest_records_from(_, _, _, _, _, _, _, _, _)

\* denest_records, from the n-th record on (lines 287-300). An element that
\* is not a dict raises TypeError at `record[key] = value` (or, at the top
\* level, at `record[key]` or in denest_record at `record.items()`); a key
\* property the top-level record lacks raises KeyError.
denest_records_from(n, row_index, table_name, records, records_map, key_properties, pk_fks, level, source) ==
    IF n > Len(records) THEN Denested(records_map, <<>>)
    ELSE
      LET record == records[n]
          here == Append(source, n - 1)
      IN  IF record.t # "dict" THEN DenestRaised(records_map)
          ELSE IF pk_fks # <<>>
          THEN LET record_pk_fks == sub_pk_fks(pk_fks, level, row_index)
                   merged == merge_items(record.items, record_pk_fks, 1)
                   r == denest_record_items(1, <<>>, table_name, merged,
                                            records_map, key_properties,
                                            record_pk_fks, level, here, "")
               IN  IF r.raised THEN r
                   ELSE denest_records_from(n + 1, row_index + 1, table_name,
                                            records, r.records_map,
                                            key_properties, pk_fks, level, source)
          ELSE IF \E key \in Range(key_properties) : ~ dict_has(record.items, key)
          THEN DenestRaised(records_map)
          ELSE LET keys == top_pk_fks(record.items, key_properties, <<>>, 1)
                   record_pk_fks ==
                       IF dict_has(record.items, SINGER_SEQUENCE)
                       THEN dict_set(keys, SINGER_SEQUENCE,
                                     dict_get(record.items, SINGER_SEQUENCE))
                       ELSE keys
                   r == denest_record_items(1, <<>>, table_name, record.items,
                                            records_map, key_properties,
                                            record_pk_fks, level, here, "")
               IN  IF r.raised THEN r
                   ELSE denest_records_from(n + 1, row_index, table_name,
                                            records, r.records_map,
                                            key_properties, pk_fks, level, source)

\* denest_records(table_name, records, records_map, key_properties,
\*                pk_fks=None, level=-1): row_index = 0, then the loop.
denest_records(table_name, records, records_map, key_properties, pk_fks, level, source) ==
    denest_records_from(1, 0, table_name, records, records_map, key_properties,
                        pk_fks, level, source)

\* denest_subrecord, from the n-th property on (lines 238-250). The
\* recursive call of line 241 passes six arguments to a method of eight
\* parameters: TypeError, whatever the nested object holds.
denest_subrecord_items(n, table_name, current_path, parent_record, record_items, records_map, key_properties, pk_fks, level, source) ==
    IF n > Len(record_items) THEN Denested(records_map, parent_record)
    ELSE
      LET value == record_items[n]
          next_path == current_path \o SEPARATOR \o value.k
      IN  CASE value.t = "dict" -> DenestRaised(records_map)
            [] value.t = "list" ->
                 LET r == denest_records(table_name \o SEPARATOR \o next_path,
                                         value.items, records_map,
                                         key_properties, pk_fks, level + 1, source)
                 IN  IF r.raised THEN r
                     ELSE denest_subrecord_items(n + 1, table_name, current_path,
                                                 parent_record, record_items,
                                                 r.records_map, key_properties,
                                                 pk_fks, level, source)
            [] OTHER ->
                 denest_subrecord_items(n + 1, table_name, current_path,
                                        dict_set(parent_record, next_path, value),
                                        record_items, records_map,
                                        key_properties, pk_fks, level, source)

\* denest_subrecord(table_name, current_path, parent_record, record,
\*                  records_map, key_properties, pk_fks, level)
denest_subrecord(table_name, current_path, parent_record, record_items, records_map, key_properties, pk_fks, level, source) ==
    denest_subrecord_items(1, table_name, current_path, parent_record,
                           record_items, records_map, key_properties, pk_fks,
                           level, source)

\* denest_record (lines 252-283), from the n-th property on, then the row is
\* appended to records_map[table_name].
denest_record_items(n, denested_record, table_name, record_items, records_map, key_properties, pk_fks, level, source, current_path) ==
    IF n > Len(record_items)
    THEN Denested(records_map_append(records_map, table_name, denested_record,
                                     level, source),
                  denested_record)
    ELSE
      LET value == record_items[n]
          next_path == IF current_path # ""
                       THEN current_path \o SEPARATOR \o value.k
                       ELSE value.k
      IN  CASE value.t = "dict" ->
                 LET r == denest_subrecord(table_name, next_path, denested_record,
                                           value.items, records_map,
                                           key_properties, pk_fks, level, source)
                 IN  IF r.raised THEN r
                     ELSE denest_record_items(n + 1, r.parent, table_name,
                                              record_items, r.records_map,
                                              key_properties, pk_fks, level,
                                              source, current_path)
            [] value.t = "list" ->
                 LET r == denest_records(table_name \o SEPARATOR \o next_path,
                                         value.items, records_map,
                                         key_properties, pk_fks, level + 1, source)
                 IN  IF r.raised THEN r
                     ELSE denest_record_items(n + 1, denested_record, table_name,
                                              record_items, r.records_map,
                                              key_properties, pk_fks, level,
                                              source, current_path)
            [] value.t = "NoneType" ->
                 denest_record_items(n + 1, denested_record, table_name,
                                     record_items, records_map, key_properties,
                                     pk_fks, level, source, current_path)
            [] OTHER ->
                 denest_record_items(n + 1,
                                     dict_set(denested_record, next_path, value),
                                     table_name, record_items, records_map,
                                     key_properties, pk_fks, level, source,
                                     current_path)

\* The records denested: batches of one or two records of stream `users`,
\* key_properties [id], each holding its id, one property and the
\* _sdc_sequence that process_record_message adds. The value of the property
\* is any JSON value of at most MaxNodes nodes (a scalar, an object or an
\* array each being one node); the properties of a nested object are named
\* by nesting depth and position.
MaxNodes == 5

Users == "users"
UsersKeyProperties == <<"id">>
RootProperties == {"a", "tags"}
BatchSizes == {1, 2}
PropNames == <<"a", "b", "c", "d", "e", "f", "g">>
Leaves == {JsonStr("x"), JsonStr("y"), JsonNone}

\* the objects and the arrays whose members are drawn from `members`
Composite(members) ==
    {JsonDict(items) : items \in members} \cup {JsonList(items) : items \in members}

\* the sequences made of one of `values` followed by one of `members`
Cons(values, members) ==
    {<<value>> \o items : value \in values, items \in members}

RECURSIVE MembersOf(_, _, _, _)
\* the sequences of values of `nodes` nodes in total whose first value has
\* `first` nodes or more: values[n] are the values of n nodes, members[n + 1]
\* the sequences of n nodes in total
MembersOf(nodes, first, values, members) ==
    IF first > nodes THEN {}
    ELSE Cons(values[first], members[nodes - first + 1])
         \cup MembersOf(nodes, first + 1, values, members)

RECURSIVE Grow(_, _, _)
\* values[n], the values of n nodes, for n up to `most`
Grow(values, members, most) ==
    LET nodes == Len(values) + 1
        grown == Append(values, (IF nodes = 1 THEN Leaves ELSE {})
                                \cup Composite(members[nodes]))
    IN  IF nodes = most THEN grown
        ELSE Grow(grown, Append(members, MembersOf(nodes, 1, grown, members)), most)

RECURSIVE Join(_, _)
Join(sets, n) == IF n > Len(sets) THEN {} ELSE sets[n] \cup Join(sets, n + 1)

RECURSIVE Named(_, _)
\* the properties of the objects of `value` named after depth and position
Named(value, depth) ==
    [value EXCEPT !.items =
        [n \in DOMAIN value.items |->
            LET item == Named(value.items[n], depth + 1)
            IN  IF value.t = "dict" THEN Keyed(PropNames[depth + n], item)
                ELSE item]]

\* the JSON values of at most `most` nodes
JsonValues(most) ==
    {Named(value, 1) : value \in Join(Grow(<<>>, <<{<<>>}>>, most), 1)}

RootRecord(id, prop, value, sequence) ==
    JsonDict(<<Keyed("id", JsonInt(id)), Keyed(prop, value),
               Keyed(SINGER_SEQUENCE, JsonInt(sequence))>>)

\* a batch of `size` records holding the same value, with ids 7 and 8
Batch(prop, value, size) ==
    IF size = 1 THEN <<RootRecord(7, prop, value, 1)>>
    ELSE <<RootRecord(7, prop, value, 1), RootRecord(8, prop, value, 2)>>

DenestBatches(most) ==
    {Batch(prop, value, size) :
        prop \in RootProperties, value \in JsonValues(most), size \in BatchSizes}

denestVars == <<pc, line_count, streams, sb, tables, txOpen, message_counter,
                add_wm, flush_wm, added_to, state_queue, emitted, accepted,
                discarded, committed, ops, up>>

\* write_batch, line 132: records_map = {};
\* self.denest_records(root_table_name, records, records_map, key_properties)
DenestRecords ==
    /\ call.op = "records"
    /\ LET r == denest_records(Users, call.records, <<>>, UsersKeyProperties,
                               <<>>, -1, <<>>)
       IN  call' = [op |-> "denest_records", records |-> call.records,
                    raised |-> r.raised,
                    records_map |-> IF r.raised THEN <<>> ELSE r.records_map]
    /\ UNCHANGED denestVars

InitDenest ==
    /\ pc = "running"
    /\ line_count = 0
    /\ streams = <<>>
    /\ sb = [s \in Streams |-> NoStream]
    /\ tables = <<>>
    /\ txOpen = FALSE
    /\ message_counter = 0
    /\ add_wm = [s \in Streams |-> 0]
    /\ flush_wm = [s \in Streams |-> 0]
    /\ added_to = {}
    /\ state_queue = <<>>
    /\ emitted = {}
    /\ accepted = {}
    /\ discarded = {}
    /\ committed = {}
    /\ ops = <<>>
    /\ up = UpIdle
    /\ \E records \in DenestBatches(MaxNodes) :
         call = [op |-> "records", records |-> records, raised |-> FALSE,
                 records_map |-> <<>>]

NextDenest == DenestRecords

SpecDenest == InitDenest /\ [][NextDenest]_vars

\* records_map after denest_records returned, empty otherwise
DenestedMap ==
    IF call.op = "denest_records" /\ ~ call.raised THEN call.records_map ELSE <<>>

\* two values equal whatever the key each is stored under
SameValue(a, b) == a.t = b.t /\ a.i = b.i /\ a.s = b.s /\ a.items = b.items

\* the root record a row came from
RootOf(entry) == call.records[entry.source[1] + 1]

\* Row `entry`, denested at level L >= 0, has integer _sdc_level_0_id ..
\* _sdc_level_L_id, the innermost being the element's position in its array,
\* and the key properties of its root record as _sdc_source_key_<k>.
SubtableRowKeyed(entry) ==
    /\ \A l \in 0 .. entry.level :
         /\ dict_has(entry.row, SINGER_LEVEL(l))
         /\ dict_get(entry.row, SINGER_LEVEL(l)).t = "int"
    /\ dict_get(entry.row, SINGER_LEVEL(entry.level)).i
         = entry.source[Len(entry.source)]
    /\ \A key \in Range(UsersKeyProperties) :
         /\ dict_has(entry.row, SINGER_SOURCE_PK_PREFIX \o key)
         /\ SameValue(dict_get(entry.row, SINGER_SOURCE_PK_PREFIX \o key),
                      dict_get(RootOf(entry).items, key))

\* C18: every row that denest_records produces for a subtable at level L has
\* _sdc_level_0_id .. _sdc_level_L_id defined and integer, carries each key
\* property of the root record it came from as _sdc_source_key_<k>, and has
\* as innermost level id the 0-based position of its element in the source
\* array.
C18_SubtableRowsKeyed ==
    \A table_name \in DOMAIN DenestedMap :
        \A n \in DOMAIN DenestedMap[table_name] :
            DenestedMap[table_name][n].level >= 0 =>
                SubtableRowKeyed(DenestedMap[table_name][n])

\* C18 happens: the second record of a batch yields a row at level 1 for the
\* second element of an array nested in the first element of another.
C18_Witness ==
    \E table_name \in DOMAIN DenestedMap :
        \E n \in DOMAIN DenestedMap[table_name] :
            /\ DenestedMap[table_name][n].level = 1
            /\ DenestedMap[table_name][n].source = <<1, 0, 1>>

\* the record of stream `users`: {id: 7, tags: ["x", "y"]}
TagsRecord == RootRecord(7, "tags", JsonList(<<JsonStr("x"), JsonStr("y")>>), 1)

\* the rows of table_name in records_map
DenestedRows(table_name) ==
    IF table_name \in DOMAIN DenestedMap
    THEN [n \in DOMAIN DenestedMap[table_name] |-> DenestedMap[table_name][n].row]
    ELSE <<>>

\* C19, as stated: denesting {id: 7, tags: ["x", "y"]} succeeds, with one
\* root row of id 7 without a tags column and two rows in users__tags, of
\* _sdc_source_key_id 7, _sdc_level_0_id 0 and 1, _sdc_value "x" and "y".
C19_Original ==
    (call.op = "denest_records" /\ call.records = <<TagsRecord>>) =>
        /\ ~ call.raised
        /\ Len(DenestedRows(Users)) = 1
        /\ SameValue(dict_get(DenestedRows(Users)[1], "id"), JsonInt(7))
        /\ ~ dict_has(DenestedRows(Users)[1], "tags")
        /\ Len(DenestedRows(Users \o SEPARATOR \o "tags")) = 2
        /\ \A n \in 1 .. 2 :
             LET row == DenestedRows(Users \o SEPARATOR \o "tags")[n]
             IN  /\ SameValue(dict_get(row, SINGER_SOURCE_PK_PREFIX \o "id"), JsonInt(7))
                 /\ SameValue(dict_get(row, SINGER_LEVEL(0)), JsonInt(n - 1))
                 /\ SameValue(dict_get(row, SINGER_VALUE),
                              JsonStr(IF n = 1 THEN "x" ELSE "y"))

RECURSIVE ObjectsOnly(_), LeavesAt(_, _)
\* `value` is a scalar, or an object all of whose members are
ObjectsOnly(value) ==
    /\ value.t # "list"
    /\ \A n \in DOMAIN value.items : ObjectsOnly(value.items[n])

\* the scalars of `value` that are not null, each with the column its path
\* flattens to
LeavesAt(value, path) ==
    IF value.t = "dict"
    THEN UNION {LeavesAt(value.items[n], path \o SEPARATOR \o value.items[n].k)
                : n \in DOMAIN value.items}
    ELSE IF value.t = "NoneType" THEN {}
    ELSE {[column |-> path, value |-> value]}

\* C20, as stated: a record whose property holds objects nested to any depth
\* is denested without error, every scalar leaf written to the record's own
\* row under its path joined by `__`.
C20_Original ==
    (call.op = "denest_records" /\ ObjectsOnly(call.records[1].items[2])) =>
        /\ ~ call.raised
        /\ \A n \in DOMAIN call.records :
             \A leaf \in LeavesAt(call.records[n].items[2],
                                  call.records[n].items[2].k) :
                 /\ dict_has(DenestedRows(Users)[n], leaf.column)
                 /\ SameValue(dict_get(DenestedRows(Users)[n], leaf.column), leaf.value)

\* What the code does for objects: one level below the record is flattened.
OneLevelObjectsFlattened ==
    (/\ call.op = "denest_records"
     /\ ObjectsOnly(call.records[1].items[2])
     /\ \A n \in DOMAIN call.records[1].items[2].items :
            call.records[1].items[2].items[n].t # "dict") =>
        /\ ~ call.raised
        /\ \A n \in DOMAIN call.records :
             \A leaf \in LeavesAt(call.records[n].items[2],
                                  call.records[n].items[2].k) :
                 /\ dict_has(DenestedRows(Users)[n], leaf.column)
                 /\ SameValue(dict_get(DenestedRows(Users)[n], leaf.column), leaf.value)

\* C21, as stated: no denested row holds a key whose value is null, whether
\* the null sits at the top level of the record or inside a nested object.
C21_Original ==
    \A table_name \in DOMAIN DenestedMap :
        \A n \in DOMAIN DenestedMap[table_name] :
            \A c \in DOMAIN DenestedMap[table_name][n].row :
                DenestedMap[table_name][n].row[c].t # "NoneType"

\* What the code does for nulls: a null directly below a record or an array
\* element leaves no key in the row.
TopLevelNullsOmitted ==
    \A table_name \in DOMAIN DenestedMap :
        \A n \in DOMAIN DenestedMap[table_name] :
            \A c \in DOMAIN DenestedMap[table_name][n].row :
                DenestedMap[table_name][n].row[c].t = "NoneType" =>
                    \E p \in 1 .. Len(PropNames) :
                        \E q \in 1 .. Len(PropNames) :
                            DenestedMap[table_name][n].row[c].k
                                = PropNames[p] \o SEPARATOR \o PropNames[q]
                            \/ DenestedMap[table_name][n].row[c].k
                                = "tags" \o SEPARATOR \o PropNames[q]

-----------------------------------------------------------------------------
\* Schema denesting (sql_base.py, lines 52-172 and 310-334).
\*
\* A JSON schema is a record: t is its type ("object", "array", "string" or
\* "integer"), nullable whether its type list holds "null", properties the
\* members of an object in order (for an array, its one `items` schema), and
\* k the name under which it is stored. A column of a denested table is such
\* a schema together with, as history, the nullability its leaf was declared
\* with, whether the leaf was nested in an object, and whether one of the
\* objects it was nested in was nullable.

JsonSchema(t, nullable, properties) ==
    [t |-> t, k |-> "", nullable |-> nullable, properties |-> properties,
     declared |-> nullable, nested |-> FALSE, below_nullable |-> FALSE]

\* json_schema.is_object, is_iterable, is_nullable
is_object(schema) == schema.t = "object"
is_iterable(schema) == schema.t = "array"
is_nullable(schema) == schema.nullable

\* the outcome of a schema denesting call: the properties denested so far and
\* the subtables
DenestedSchema(properties, subtables) ==
    [properties |-> properties, subtables |-> subtables]

\* lines 109-112: `if not_null and is_nullable(item): type.remove('null')`,
\* `elif not is_nullable(item): type.append('null')`
leaf_nullability(not_null, item_json_schema) ==
    IF not_null /\ is_nullable(item_json_schema) THEN FALSE
    ELSE IF ~ is_nullable(item_json_schema) THEN TRUE
    ELSE is_nullable(item_json_schema)

\* Mutant of subtable_levels: the levels above the array's own.
subtable_levels_above(level) == 0 .. level - 1

\* line 131: range(0, level + 1)
subtable_levels(level) == 0 .. level

RECURSIVE add_level_columns(_, _, _)
\* lines 131-134: new_properties[SINGER_LEVEL.format(i)] = {'type': ['integer']}
add_level_columns(new_properties, i, level) ==
    IF i \notin subtable_levels(level) THEN new_properties
    ELSE add_level_columns(dict_set(new_properties, SINGER_LEVEL(i),
                                    JsonSchema("integer", FALSE, <<>>)),
                           i + 1, level)

RECURSIVE add_key_columns(_, _, _)
\* lines 123-125: new_properties[SINGER_SOURCE_PK_PREFIX + pk] = item_json_schema
add_key_columns(new_properties, key_prop_schemas, n) ==
    IF n > Len(key_prop_schemas) THEN new_properties
    ELSE add_key_columns(dict_set(new_properties,
                                  SINGER_SOURCE_PK_PREFIX \o key_prop_schemas[n].k,
                                  key_prop_schemas[n]),
                         key_prop_schemas, n + 1)

\* lines 122-124: key_properties.append(SINGER_SOURCE_PK_PREFIX + pk)
subtable_key_properties(key_prop_schemas) ==
    [n \in DOMAIN key_prop_schemas |->
        SINGER_SOURCE_PK_PREFIX \o key_prop_schemas[n].k]

RECURSIVE _denest_schema_helper_items(_, _, _, _, _, _, _, _, _, _)
RECURSIVE _denest_schema_items(_, _, _, _, _, _, _, _)
RECURSIVE _create_subtable(_, _, _, _, _)

\* _denest_schema_helper (lines 83-113), from the n-th property on.
\* `below_nullable` is history: one of the objects around is nullable.
_denest_schema_helper_items(n, table_name, properties, not_null, top_level_schema, current_path, key_prop_schemas, subtables, level, below_nullable) ==
    IF n > Len(properties) THEN DenestedSchema(top_level_schema, subtables)
    ELSE
      LET item_json_schema == properties[n]
          prop == item_json_schema.k
          next_path == current_path \o SEPARATOR \o prop
      IN  IF is_object(item_json_schema)
          THEN LET r == _denest_schema_helper_items(
                            1, table_name, item_json_schema.properties, not_null,
                            top_level_schema, next_path, key_prop_schemas,
                            subtables, level,
                            below_nullable \/ is_nullable(item_json_schema))
               IN  _denest_schema_helper_items(
                       n + 1, table_name, properties, not_null, r.properties,
                       current_path, key_prop_schemas, r.subtables, level,
                       below_nullable)
          ELSE IF is_iterable(item_json_schema)
          THEN _denest_schema_helper_items(
                   n + 1, table_name, properties, not_null, top_level_schema,
                   current_path, key_prop_schemas,
                   _create_subtable(table_name \o SEPARATOR \o prop,
                                    item_json_schema, key_prop_schemas,
                                    subtables, level + 1),
                   level, below_nullable)
          ELSE _denest_schema_helper_items(
                   n + 1, table_name, properties, not_null,
                   dict_set(top_level_schema, next_path,
                            [item_json_schema EXCEPT
                                !.nullable = leaf_nullability(not_null, item_json_schema),
                                !.nested = TRUE,
                                !.below_nullable = below_nullable]),
                   current_path, key_prop_schemas, subtables, level,
                   below_nullable)

\* _denest_schema (lines 146-172), from the n-th property on: current_path
\* is None in every call the module makes.
_denest_schema_items(n, table_name, properties, new_properties, key_prop_schemas, subtables, current_path, level) ==
    IF n > Len(properties) THEN DenestedSchema(new_properties, subtables)
    ELSE
      LET item_json_schema == properties[n]
          prop == item_json_schema.k
          next_path == IF current_path # ""
                       THEN current_path \o SEPARATOR \o prop
                       ELSE prop
      IN  IF is_object(item_json_schema)
          THEN LET not_null == ~ is_nullable(item_json_schema)
                   r == _denest_schema_helper_items(
                            1, table_name \o SEPARATOR \o next_path,
                            item_json_schema.properties, not_null,
                            new_properties, next_path, key_prop_schemas,
                            subtables, level, is_nullable(item_json_schema))
               IN  _denest_schema_items(n + 1, table_name, properties,
                                        r.properties, key_prop_schemas,
                                        r.subtables, current_path, level)
          ELSE IF is_iterable(item_json_schema)
          THEN _denest_schema_items(
                   n + 1, table_name, properties, new_properties,
                   key_prop_schemas,
                   _create_subtable(table_name \o SEPARATOR \o next_path,
                                    item_json_schema, key_prop_schemas,
                                    subtables, level + 1),
                   current_path, level)
          ELSE _denest_schema_items(
                   n + 1, table_name, properties,
                   dict_set(new_properties, prop, item_json_schema),
                   key_prop_schemas, subtables, current_path, level)

\* _denest_schema(table_name, table_json_schema, key_prop_schemas, subtables,
\*                current_path=None, level=-1)
_denest_schema(table_name, properties, key_prop_schemas, subtables, level) ==
    _denest_schema_items(1, table_name, properties, <<>>, key_prop_schemas,
                         subtables, "", level)

\* _create_subtable (lines 116-143): the subtables with table_name added
_create_subtable(table_name, table_json_schema, key_prop_schemas, subtables, level) ==
    LET items == table_json_schema.properties[1]
        own == IF is_object(items) THEN items.properties
               ELSE <<Keyed("value", items)>>
        keyed == add_key_columns(own, key_prop_schemas, 1)
        sequenced == dict_set(keyed, SINGER_SEQUENCE,
                              JsonSchema("integer", TRUE, <<>>))
        new_properties == add_level_columns(sequenced, 0, level)
        r == _denest_schema(table_name, new_properties, key_prop_schemas,
                            subtables, level)
        new_schema == [properties |-> r.properties, level |-> level,
                       key_properties |-> subtable_key_properties(key_prop_schemas)]
    IN  IF table_name \in DOMAIN r.subtables
        THEN [r.subtables EXCEPT ![table_name] = new_schema]
        ELSE r.subtables @@ (table_name :> new_schema)

\* _add_singer_columns (lines 52-80), for key_properties that are not empty
\* and a schema that declares none of the columns
_add_singer_columns(properties) ==
    LET received == dict_set(properties, "_sdc_received_at",
                             JsonSchema("string", TRUE, <<>>))
        sequenced == dict_set(received, SINGER_SEQUENCE,
                              JsonSchema("integer", TRUE, <<>>))
        versioned == dict_set(sequenced, "_sdc_table_version",
                              JsonSchema("integer", TRUE, <<>>))
    IN  dict_set(versioned, "_sdc_batched_at", JsonSchema("string", TRUE, <<>>))

\* _get_streamed_table_schemas (lines 310-334) on a simplified schema: the
\* root table's properties and the subtables
_get_streamed_table_schemas(root_table, schema, key_properties) ==
    LET root_properties == _add_singer_columns(schema.properties)
        key_prop_schemas ==
            [n \in DOMAIN key_properties |->
                dict_get(schema.properties, key_properties[n])]
    IN  _denest_schema(root_table, root_properties, key_prop_schemas, <<>>, -1)

\* The schemas denested: stream `users` with key_properties [id], the integer
\* id and one property, whose schema is any schema of at most MaxSchemaNodes
\* nodes (a scalar, an object or an array each being one node). The
\* properties of a nested object are named by depth and position.
MaxSchemaNodes == 4

SchemaLeaves == {JsonSchema("string", nullable, <<>>) : nullable \in BOOLEAN}

\* the objects whose properties, and the arrays whose items, are drawn from
\* `members` and `schemas`
SchemaComposite(members, schemas) ==
    {JsonSchema("object", nullable, properties) :
        nullable \in BOOLEAN, properties \in members}
    \cup {JsonSchema("array", FALSE, <<items>>) : items \in schemas}

RECURSIVE GrowSchemas(_, _, _)
\* schemas[n], the schemas of n nodes, for n up to `most`
GrowSchemas(schemas, members, most) ==
    LET nodes == Len(schemas) + 1
        grown == Append(schemas,
                        IF nodes = 1
                        THEN SchemaLeaves \cup SchemaComposite(members[1], {})
                        ELSE SchemaComposite(members[nodes], schemas[nodes - 1]))
    IN  IF nodes = most THEN grown
        ELSE GrowSchemas(grown,
                         Append(members, MembersOf(nodes, 1, grown, members)),
                         most)

RECURSIVE NamedSchema(_, _)
\* the properties of the objects of `schema` named after depth and position
NamedSchema(schema, depth) ==
    [schema EXCEPT !.properties =
        [n \in DOMAIN schema.properties |->
            LET item == NamedSchema(schema.properties[n], depth + 1)
            IN  IF schema.t = "object" THEN Keyed(PropNames[depth + n], item)
                ELSE item]]

JsonSchemas(most) ==
    {NamedSchema(schema, 1) : schema \in Join(GrowSchemas(<<>>, <<{<<>>}>>, most), 1)}

RootSchema(prop, schema) ==
    JsonSchema("object", FALSE,
               <<Keyed("id", JsonSchema("integer", FALSE, <<>>)),
                 Keyed(prop, schema)>>)

StreamSchemas(most) ==
    {RootSchema(prop, schema) : prop \in RootProperties, schema \in JsonSchemas(most)}

\* every variable of the line pipeline, untouched by the direct calls
PipelineAtRest ==
    /\ pc = "running"
    /\ line_count = 0
    /\ streams = <<>>
    /\ sb = [s \in Streams |-> NoStream]
    /\ tables = <<>>
    /\ txOpen = FALSE
    /\ message_counter = 0
    /\ add_wm = [s \in Streams |-> 0]
    /\ flush_wm = [s \in Streams |-> 0]
    /\ added_to = {}
    /\ state_queue = <<>>
    /\ emitted = {}
    /\ accepted = {}
    /\ discarded = {}
    /\ committed = {}
    /\ ops = <<>>
    /\ up = UpIdle

\* _get_streamed_table_schemas(root_table_name, schema, key_properties)
DenestSchema ==
    /\ call.op = "schema"
    /\ LET r == _get_streamed_table_schemas(Users, call.schema, UsersKeyProperties)
       IN  call' = [op |-> "_get_streamed_table_schemas", schema |-> call.schema,
                    properties |-> r.properties, subtables |-> r.subtables]
    /\ UNCHANGED denestVars

InitSchema ==
    /\ PipelineAtRest
    /\ \E schema \in StreamSchemas(MaxSchemaNodes) :
         call = [op |-> "schema", schema |-> schema, properties |-> <<>>,
                 subtables |-> <<>>]

NextSchema == DenestSchema

SpecSchema == InitSchema /\ [][NextSchema]_vars

\* the tables _get_streamed_table_schemas returned: the properties of the
\* root table and of every subtable, by table name
StreamedTables ==
    IF call.op = "_get_streamed_table_schemas"
    THEN [table_name \in {Users} \cup DOMAIN call.subtables |->
            IF table_name = Users THEN call.properties
            ELSE call.subtables[table_name].properties]
    ELSE <<>>

\* C22, as stated: a scalar leaf inside a nested object keeps the
\* nullability it was declared with when the objects around it are not
\* nullable, and is nullable when one of them is.
C22_Original ==
    \A table_name \in DOMAIN StreamedTables :
        \A n \in DOMAIN StreamedTables[table_name] :
            LET column == StreamedTables[table_name][n]
            IN  column.nested =>
                    IF column.below_nullable THEN column.nullable
                    ELSE column.nullable = column.declared

\* What the code does for a leaf below an object that is not nullable: the
\* declared nullability is inverted.
NotNullObjectInvertsLeaves ==
    \A table_name \in DOMAIN StreamedTables :
        \A n \in DOMAIN StreamedTables[table_name] :
            LET column == StreamedTables[table_name][n]
            IN  column.nested /\ column.k = "a" \o SEPARATOR \o "b"
                /\ ~ column.below_nullable
                    => column.nullable = ~ column.declared

\* the subtables _get_streamed_table_schemas returned
StreamedSubtables ==
    IF call.op = "_get_streamed_table_schemas" THEN call.subtables ELSE <<>>

\* the names of the columns _sdc_source_key_<k> and _sdc_level_<i>_id of a
\* subtable of key properties `keys` at `level`
SourceKeyColumns(keys) == {SINGER_SOURCE_PK_PREFIX \o keys[n] : n \in DOMAIN keys}
LevelColumns(level) == {SINGER_LEVEL(i) : i \in 0 .. level}

\* the subtable has the columns of the composite key and _sdc_sequence
HasKeyColumns(subtable) ==
    \A column \in SourceKeyColumns(UsersKeyProperties)
                  \cup LevelColumns(subtable.level) \cup {SINGER_SEQUENCE} :
        dict_has(subtable.properties, column)

\* C23, as stated: a subtable at level L has the columns _sdc_source_key_<k>,
\* _sdc_sequence and _sdc_level_0_id .. _sdc_level_L_id, and its
\* key_properties are all of its _sdc_source_key_* and _sdc_level_*_id
\* columns.
C23_Original ==
    \A table_name \in DOMAIN StreamedSubtables :
        LET subtable == StreamedSubtables[table_name]
        IN  /\ HasKeyColumns(subtable)
            /\ Range(subtable.key_properties)
                 = SourceKeyColumns(UsersKeyProperties)
                     \cup LevelColumns(subtable.level)

\* C23, amended: a subtable at level L has the columns _sdc_source_key_<k>,
\* _sdc_sequence and integer _sdc_level_0_id .. _sdc_level_L_id, and no
\* _sdc_level column of a deeper level; its key_properties are its
\* _sdc_source_key_* columns alone.
C23_SubtableKeyColumns ==
    \A table_name \in DOMAIN StreamedSubtables :
        LET subtable == StreamedSubtables[table_name]
        IN  /\ subtable.level >= 0
            /\ HasKeyColumns(subtable)
            /\ \A i \in 0 .. subtable.level :
                 /\ dict_get(subtable.properties, SINGER_LEVEL(i)).t = "integer"
                 /\ ~ dict_get(subtable.properties, SINGER_LEVEL(i)).nullable
            /\ ~ dict_has(subtable.properties, SINGER_LEVEL(subtable.level + 1))
            /\ subtable.key_properties
                 = [n \in DOMAIN UsersKeyProperties |->
                        SINGER_SOURCE_PK_PREFIX \o UsersKeyProperties[n]]

\* C23 happens: an array nested in the elements of an array has a subtable
\* at level 1.
C23_Witness ==
    \E table_name \in DOMAIN StreamedSubtables :
        /\ StreamedSubtables[table_name].level = 1
        /\ dict_has(StreamedSubtables[table_name].properties, SINGER_LEVEL(1))

(***************************************************************************)
(* Upserting a table's columns: SQLInterface.upsert_table_helper.          *)
(*                                                                         *)
(* A column's schema is [t, nullable], t one of "integer", "string",       *)
(* "boolean".  The remote table is [columns, mappings, table_empty,        *)
(* values]: `columns` maps a column name to its schema, `mappings` maps a  *)
(* mapped column name to [from, t] (the raw field it serves and the type   *)
(* it was registered with), and `values` records, per column, the columns  *)
(* its stored values were first written to.  The helper's primitives       *)
(* (add_column, drop_column, migrate_column, make_column_nullable,         *)
(* add_column_mapping, drop_column_mapping) act on the remote table as     *)
(* their docstrings say.                                                   *)
(***************************************************************************)
ColumnSchema(t, nullable) == [t |-> t, nullable |-> nullable]

\* json_schema.make_nullable, json_schema.sql_shorthand, json_schema.to_sql
make_nullable(schema) == [schema EXCEPT !.nullable = TRUE]

sql_shorthand(schema) ==
    CASE schema.t = "integer" -> "i"
      [] schema.t = "string" -> "s"
      [] schema.t = "boolean" -> "b"

to_sql(schema) ==
    (CASE schema.t = "integer" -> "bigint"
       [] schema.t = "string" -> "text"
       [] schema.t = "boolean" -> "boolean")
    \o (IF is_nullable(schema) THEN "" ELSE " NOT NULL")

\* a _mapping_name that leaves the type out
_mapping_name_untyped(field, schema) == field

\* _mapping_name(field, schema)
_mapping_name(field, schema) == field \o SEPARATOR \o sql_shorthand(schema)

\* canonicalize_identifier: the remote folds identifiers to lower case
canonicalize_identifier(name) ==
    CASE name = "Age" -> "age"
      [] name = "AGE" -> "age"
      [] OTHER -> name

\* the primitives of the remote
add_column(remote, name, schema) ==
    [remote EXCEPT !.columns = (name :> schema) @@ @,
                   !.values = (name :> {}) @@ @]

drop_column(remote, name) ==
    [remote EXCEPT !.columns = [c \in DOMAIN @ \ {name} |-> @[c]],
                   !.values = [c \in DOMAIN @ \ {name} |-> @[c]]]

migrate_column(remote, from_column, to_column) ==
    [remote EXCEPT !.values[to_column] = @ \cup remote.values[from_column]]

make_column_nullable(remote, name) ==
    [remote EXCEPT !.columns[name] = make_nullable(@)]

add_column_mapping(remote, name, mapped_name, schema) ==
    [remote EXCEPT !.mappings = (mapped_name :> [from |-> name, t |-> schema.t]) @@ @]

drop_column_mapping(remote, name) ==
    [remote EXCEPT !.mappings = [c \in DOMAIN @ \ {name} |-> @[c]]]

\* _get_mapping(existing_schema, field, schema): the mapped name registered
\* for (field, shorthand of schema), or "" for None (both are false to `if`
\* and `or`)
_get_mapping(existing_mappings, field, schema) ==
    LET found == {to_field \in DOMAIN existing_mappings :
                      /\ existing_mappings[to_field].from = field
                      /\ sql_shorthand(existing_mappings[to_field]) = sql_shorthand(schema)}
    IN  IF found = {} THEN "" ELSE CHOOSE to_field \in found : TRUE

\* Mutant of upsert_column: without the NULL COMPATIBILITY branch.
upsert_column_without_null_compatibility(u, existing_mappings, table_empty, raw_column_name, column_schema) ==
    LET canonicalized_column_name == canonicalize_identifier(raw_column_name)
        canonicalized_typed_column_name ==
            _mapping_name(canonicalized_column_name, column_schema)
        nullable_column_schema == make_nullable(column_schema)
        existing_columns == u.existing_columns
        has(name) == name \in DOMAIN existing_columns
        took(branch) == [u EXCEPT !.branches = Append(@, branch)]
        added(name, schema, mapped, branch) ==
            LET r1 == IF mapped
                      THEN add_column_mapping(u.remote, raw_column_name, name, schema)
                      ELSE u.remote
            IN  [took(branch) EXCEPT
                    !.remote = add_column(r1, name, schema),
                    !.existing_columns = (name :> schema) @@ @,
                    !.existing_columns_raw_names =
                        IF mapped THEN @ \cup {name} ELSE @]
    IN  IF /\ raw_column_name # canonicalized_column_name
           /\ raw_column_name \notin u.existing_columns_raw_names
           /\ (has(canonicalized_column_name) \/ has(canonicalized_typed_column_name))
        THEN [took("NAME COLLISION") EXCEPT !.raised = "NAME COLLISION"]
        ELSE IF \/ /\ has(canonicalized_column_name)
                   /\ to_sql(column_schema)
                        = to_sql(existing_columns[canonicalized_column_name])
                \/ /\ has(canonicalized_typed_column_name)
                   /\ to_sql(column_schema)
                        = to_sql(existing_columns[canonicalized_typed_column_name])
                \/ /\ has(canonicalized_column_name)
                   /\ to_sql(nullable_column_schema)
                        = to_sql(existing_columns[canonicalized_column_name])
                \/ /\ has(canonicalized_typed_column_name)
                   /\ to_sql(nullable_column_schema)
                        = to_sql(existing_columns[canonicalized_typed_column_name])
        THEN took("EXISTING COLUMNS")
        ELSE IF has(canonicalized_column_name)
        THEN LET existing == existing_columns[canonicalized_column_name]
                 existing_column_mapping ==
                     _mapping_name(canonicalized_column_name, existing)
                 new_column_mapping ==
                     _mapping_name(canonicalized_column_name, column_schema)
                 r0 == IF _get_mapping(existing_mappings, raw_column_name, existing) # ""
                       THEN drop_column_mapping(u.remote, canonicalized_column_name)
                       ELSE u.remote
                 r1 == add_column_mapping(r0, raw_column_name,
                                          existing_column_mapping, make_nullable(existing))
                 r2 == add_column_mapping(r1, raw_column_name,
                                          new_column_mapping, nullable_column_schema)
                 r3 == add_column(r2, existing_column_mapping, make_nullable(existing))
                 r4 == add_column(r3, new_column_mapping, nullable_column_schema)
                 r5 == migrate_column(r4, canonicalized_column_name,
                                      existing_column_mapping)
                 r6 == drop_column(r5, canonicalized_column_name)
             IN  [took("FIRST DUPLICATE TYPE") EXCEPT
                     !.remote = r6,
                     !.existing_columns =
                         [c \in (DOMAIN existing_columns
                                   \cup {existing_column_mapping, new_column_mapping})
                                 \ {canonicalized_column_name} |->
                             IF c = new_column_mapping THEN nullable_column_schema
                             ELSE IF c = existing_column_mapping
                                  THEN make_nullable(existing)
                                  ELSE existing_columns[c]]]
        ELSE IF raw_column_name \in u.existing_columns_raw_names
        THEN added(canonicalized_typed_column_name, nullable_column_schema,
                   TRUE, "MULTI DUPLICATE TYPE")
        ELSE IF canonicalized_column_name = raw_column_name /\ table_empty
        THEN added(canonicalized_column_name, column_schema,
                   FALSE, "NEW COLUMN, VALID NAME, EMPTY TABLE")
        ELSE IF canonicalized_column_name = raw_column_name
        THEN added(canonicalized_column_name, nullable_column_schema,
                   FALSE, "NEW COLUMN, VALID NAME")
        ELSE IF table_empty
        THEN added(canonicalized_column_name, column_schema,
                   TRUE, "NEW COLUMN, INVALID NAME, EMPTY TABLE")
        ELSE added(canonicalized_column_name, nullable_column_schema,
                   TRUE, "NEW COLUMN, INVALID NAME")

\* One turn of `for raw_column_name, column_schema in new_columns.items()`.
\* u is [remote, existing_columns, existing_columns_raw_names, raised,
\* branches]: the remote table, the helper's copy of its columns, the raw
\* names it knows as mapped, the error raised so far ("" for none), and the
\* branch each field took.
upsert_column(u, existing_mappings, table_empty, raw_column_name, column_schema) ==
    LET canonicalized_column_name == canonicalize_identifier(raw_column_name)
        canonicalized_typed_column_name ==
            _mapping_name(canonicalized_column_name, column_schema)
        nullable_column_schema == make_nullable(column_schema)
        existing_columns == u.existing_columns
        has(name) == name \in DOMAIN existing_columns
        took(branch) == [u EXCEPT !.branches = Append(@, branch)]
        added(name, schema, mapped, branch) ==
            LET r1 == IF mapped
                      THEN add_column_mapping(u.remote, raw_column_name, name, schema)
                      ELSE u.remote
            IN  [took(branch) EXCEPT
                    !.remote = add_column(r1, name, schema),
                    !.existing_columns = (name :> schema) @@ @,
                    !.existing_columns_raw_names =
                        IF mapped THEN @ \cup {name} ELSE @]
    IN  IF /\ raw_column_name # canonicalized_column_name
           /\ raw_column_name \notin u.existing_columns_raw_names
           /\ (has(canonicalized_column_name) \/ has(canonicalized_typed_column_name))
        THEN [took("NAME COLLISION") EXCEPT !.raised = "NAME COLLISION"]
        ELSE IF \/ /\ has(canonicalized_column_name)
                   /\ to_sql(column_schema)
                        = to_sql(existing_columns[canonicalized_column_name])
                \/ /\ has(canonicalized_typed_column_name)
                   /\ to_sql(column_schema)
                        = to_sql(existing_columns[canonicalized_typed_column_name])
                \/ /\ has(canonicalized_column_name)
                   /\ to_sql(nullable_column_schema)
                        = to_sql(existing_columns[canonicalized_column_name])
                \/ /\ has(canonicalized_typed_column_name)
                   /\ to_sql(nullable_column_schema)
                        = to_sql(existing_columns[canonicalized_typed_column_name])
        THEN took("EXISTING COLUMNS")
        ELSE IF /\ has(canonicalized_column_name)
                /\ to_sql(nullable_column_schema)
                     = to_sql(make_nullable(existing_columns[canonicalized_column_name]))
        THEN [took("NULL COMPATIBILITY") EXCEPT
                 !.remote = make_column_nullable(@, canonicalized_column_name),
                 !.existing_columns[canonicalized_column_name] = make_nullable(@)]
        ELSE IF has(canonicalized_column_name)
        THEN LET existing == existing_columns[canonicalized_column_name]
                 existing_column_mapping ==
                     _mapping_name(canonicalized_column_name, existing)
                 new_column_mapping ==
                     _mapping_name(canonicalized_column_name, column_schema)
                 r0 == IF _get_mapping(existing_mappings, raw_column_name, existing) # ""
                       THEN drop_column_mapping(u.remote, canonicalized_column_name)
                       ELSE u.remote
                 r1 == add_column_mapping(r0, raw_column_name,
                                          existing_column_mapping, make_nullable(existing))
                 r2 == add_column_mapping(r1, raw_column_name,
                                          new_column_mapping, nullable_column_schema)
                 r3 == add_column(r2, existing_column_mapping, make_nullable(existing))
                 r4 == add_column(r3, new_column_mapping, nullable_column_schema)
                 r5 == migrate_column(r4, canonicalized_column_name,
                                      existing_column_mapping)
                 r6 == drop_column(r5, canonicalized_column_name)
             IN  [took("FIRST DUPLICATE TYPE") EXCEPT
                     !.remote = r6,
                     !.existing_columns =
                         [c \in (DOMAIN existing_columns
                                   \cup {existing_column_mapping, new_column_mapping})
                                 \ {canonicalized_column_name} |->
                             IF c = new_column_mapping THEN nullable_column_schema
                             ELSE IF c = existing_column_mapping
                                  THEN make_nullable(existing)
                                  ELSE existing_columns[c]]]
        ELSE IF raw_column_name \in u.existing_columns_raw_names
        THEN added(canonicalized_typed_column_name, nullable_column_schema,
                   TRUE, "MULTI DUPLICATE TYPE")
        ELSE IF canonicalized_column_name = raw_column_name /\ table_empty
        THEN added(canonicalized_column_name, column_schema,
                   FALSE, "NEW COLUMN, VALID NAME, EMPTY TABLE")
        ELSE IF canonicalized_column_name = raw_column_name
        THEN added(canonicalized_column_name, nullable_column_schema,
                   FALSE, "NEW COLUMN, VALID NAME")
        ELSE IF table_empty
        THEN added(canonicalized_column_name, column_schema,
                   TRUE, "NEW COLUMN, INVALID NAME, EMPTY TABLE")
        ELSE added(canonicalized_column_name, nullable_column_schema,
                   TRUE, "NEW COLUMN, INVALID NAME")

RECURSIVE upsert_columns(_, _, _, _, _)
upsert_columns(u, existing_mappings, table_empty, new_columns, n) ==
    IF n > Len(new_columns) \/ u.raised # "" THEN u
    ELSE upsert_columns(
             upsert_column(u, existing_mappings, table_empty,
                           new_columns[n].k, new_columns[n].schema),
             existing_mappings, table_empty, new_columns, n + 1)

\* upsert_table_helper(connection, schema) on the remote table: the table
\* it leaves, the error it raised and the branch each field took
upsert_table_helper(remote, new_columns) ==
    LET u == upsert_columns(
                 [remote |-> remote,
                  existing_columns |-> remote.columns,
                  existing_columns_raw_names |->
                      {remote.mappings[c].from : c \in DOMAIN remote.mappings},
                  raised |-> "",
                  branches |-> <<>>],
                 remote.mappings, remote.table_empty, new_columns, 1)
    IN  [remote |-> u.remote, raised |-> u.raised, branches |-> u.branches]

\* _serialize_table_record_field_name(remote_schema, streamed_schema, field)
_serialize_table_record_field_name(remote, field, schema) ==
    LET mapped == _get_mapping(remote.mappings, field, schema)
    IN  IF mapped # "" THEN mapped ELSE field

\* write_table_batch after the upsert: the rows of the batch are stored,
\* each field's values in the remote column serialized for it
RECURSIVE write_table_batch(_, _, _)
write_table_batch(remote, new_columns, n) ==
    IF n > Len(new_columns) THEN [remote EXCEPT !.table_empty = FALSE]
    ELSE LET name == _serialize_table_record_field_name(
                         remote, new_columns[n].k, new_columns[n].schema)
         IN  write_table_batch(
                 IF name \in DOMAIN remote.columns
                 THEN [remote EXCEPT !.values[name] = @ \cup {name}]
                 ELSE remote,
                 new_columns, n + 1)

(***************************************************************************)
(* The harness for upsert_table_helper, as write_batch_helper drives it:   *)
(* one remote table, created without columns, is upserted with a local     *)
(* schema of at most MaxFields fields whose raw names fold to one          *)
(* canonical name, then the batch is written (with or without rows), at    *)
(* most MaxUpserts times over.  An upsert that raises ends the run.        *)
(***************************************************************************)
MaxFields == 2
MaxUpserts == 3

RawNames == {"age", "Age"}

ColumnSchemas ==
    {ColumnSchema(t, nullable) : t \in {"integer", "string", "boolean"}, nullable \in BOOLEAN}

LocalField(name, schema) == [k |-> name, schema |-> schema]

\* the local schemas: sequences of fields of distinct raw names
LocalSchemas(most) ==
    {new_columns \in UNION {[1 .. n -> {LocalField(name, schema) : name \in RawNames, schema \in ColumnSchemas}] : n \in 1 .. most} :
        \A i, j \in DOMAIN new_columns : i # j => new_columns[i].k # new_columns[j].k}

EmptyTable == [columns |-> <<>>, mappings |-> <<>>, table_empty |-> TRUE, values |-> <<>>]

\* remote_schema = self.upsert_table(connection, table_batch['streamed_schema'], metadata)
UpsertTableHelper ==
    /\ call.op \in {"create_table", "write_table_batch"}
    /\ call.upserts < MaxUpserts
    /\ \E new_columns \in LocalSchemas(MaxFields) :
         LET done == upsert_table_helper(call.remote, new_columns)
         IN  call' = [op |-> "upsert_table_helper",
                      upserts |-> call.upserts + 1,
                      before |-> call.remote,
                      remote |-> done.remote,
                      schema |-> new_columns,
                      raised |-> done.raised,
                      branches |-> done.branches]
    /\ UNCHANGED <<pc, line_count, streams, sb, tables, txOpen, message_counter, add_wm, flush_wm, added_to, state_queue, emitted, accepted, discarded, committed, ops, up>>

\* rows_persisted += self.write_table_batch(connection, {...}, metadata)
WriteTableBatch ==
    /\ call.op = "upsert_table_helper"
    /\ call.raised = ""
    /\ \E records \in BOOLEAN :
         call' = [op |-> "write_table_batch",
                  upserts |-> call.upserts,
                  before |-> call.remote,
                  remote |-> IF records
                             THEN write_table_batch(call.remote, call.schema, 1)
                             ELSE call.remote,
                  schema |-> <<>>,
                  raised |-> "",
                  branches |-> <<>>]
    /\ UNCHANGED <<pc, line_count, streams, sb, tables, txOpen, message_counter, add_wm, flush_wm, added_to, state_queue, emitted, accepted, discarded, committed, ops, up>>

InitColumns ==
    /\ PipelineAtRest
    /\ call = [op |-> "create_table", upserts |-> 0, before |-> EmptyTable,
               remote |-> EmptyTable, schema |-> <<>>, raised |-> "", branches |-> <<>>]

NextColumns == UpsertTableHelper \/ WriteTableBatch

SpecColumns == InitColumns /\ [][NextColumns]_vars

\* the latest call is an upsert_table_helper that returned without error
Upserted == call.op = "upsert_table_helper" /\ call.raised = ""

\* the remote table has a column for the field, under its canonical name or
\* its type-tagged name, of the field's SQL type or its nullable form
HasCompatibleColumn(remote, field) ==
    LET canonical == canonicalize_identifier(field.k)
    IN  \E name \in {canonical, _mapping_name(canonical, field.schema)} :
            /\ name \in DOMAIN remote.columns
            /\ to_sql(remote.columns[name])
                 \in {to_sql(field.schema), to_sql(make_nullable(field.schema))}

\* C24: after upsert_table_helper returns without error, every field of the
\* local schema has a remote column, under its canonical name or its
\* type-tagged mapped name, whose SQL type is the local type or the nullable
\* form of the local type.
C24_EveryFieldHasColumn ==
    Upserted =>
        \A n \in DOMAIN call.schema : HasCompatibleColumn(call.remote, call.schema[n])

\* C24 happens: an upsert that relaxed a column or split one by type
\* returned without error.
C24_Witness ==
    /\ Upserted
    /\ \E n \in DOMAIN call.branches :
         call.branches[n] \in {"NULL COMPATIBILITY", "FIRST DUPLICATE TYPE", "MULTI DUPLICATE TYPE"}
    /\ call.before.columns # <<>>

\* every branch of the helper but UNKNOWN is taken by some upsert
BranchTaken(branch) ==
    call.op = "upsert_table_helper" /\ branch \in Range(call.branches)

\* C26, as stated: two distinct raw names of one local schema that
\* canonicalize to the same column name are never served by one remote
\* column after an upsert that returned without error, whichever comes first.
C26_Original ==
    Upserted =>
        \A i, j \in DOMAIN call.schema :
            (/\ i # j
             /\ canonicalize_identifier(call.schema[i].k)
                  = canonicalize_identifier(call.schema[j].k))
            => _serialize_table_record_field_name(
                   call.remote, call.schema[i].k, call.schema[i].schema)
                 # _serialize_table_record_field_name(
                       call.remote, call.schema[j].k, call.schema[j].schema)

\* Rule 1 on the first field of an upsert: a raw name that differs from its
\* canonical name and is not mapped in the remote table, whose canonical or
\* typed column the remote table already has, raises NAME COLLISION.
CollisionDetectedOnFirstField ==
    (/\ call.op = "upsert_table_helper"
     /\ call.schema[1].k # canonicalize_identifier(call.schema[1].k)
     /\ \A c \in DOMAIN call.before.mappings :
            call.before.mappings[c].from # call.schema[1].k
     /\ \E name \in {canonicalize_identifier(call.schema[1].k),
                      _mapping_name(canonicalize_identifier(call.schema[1].k),
                                    call.schema[1].schema)} :
            name \in DOMAIN call.before.columns)
    => call.raised = "NAME COLLISION"

(***************************************************************************)
(* Upserting a table's columns on the path write_batch takes:              *)
(* PostgresTarget.upsert_table_schema and merge_put_schemas.               *)
(*                                                                         *)
(* The table in the database is [exists, columns, mappings, table_empty,   *)
(* values, flushed]: `columns` maps a column name to [data_type, default_value],    *)
(* the SQL type it was created with and its DEFAULT (NoDefault when it has *)
(* none), and `values` records, per column, the types of the values        *)
(* written to it, in the order of the writes.  No routine of this path     *)
(* writes a mapping.  `flushed` records, per field of the stream, the      *)
(* types it was declared with in the batches committed so far.             *)
(***************************************************************************)
NoDefault == "NULL"

\* get_null_default(column, target_json_schema): the default, or "raise"
get_null_default(column, target_json_schema) ==
    IF is_nullable(target_json_schema) THEN NoDefault
    ELSE IF target_json_schema.t = "string" THEN ""
    ELSE IF target_json_schema.t = "boolean" THEN "FALSE"
    ELSE "raise"

\* ALTER TABLE ... ADD COLUMN column_name data_type [DEFAULT default_value]
alter_table_add_column(table, column_name, data_type, default_value) ==
    [table EXCEPT
        !.columns = (column_name :> [data_type |-> data_type,
                                     default_value |-> default_value]) @@ @,
        !.values = (column_name :> <<>>) @@ @]

\* merge_put_schemas(cur, table_schema, table_name, existing_schema,
\* new_schema): [table, raised, added] after the loop has reached field n
RECURSIVE merge_put_schemas(_, _, _)
merge_put_schemas(m, new_properties, n) ==
    IF n > Len(new_properties) \/ m.raised # "" THEN m
    ELSE LET prop == new_properties[n].k
             data_type == to_sql(new_properties[n].schema)
             default_value == get_null_default(prop, new_properties[n].schema)
         IN  merge_put_schemas(
                 IF prop \in DOMAIN m.table.columns THEN m
                 ELSE IF default_value = "raise"
                      THEN [m EXCEPT !.raised = "Non-trival default needed"]
                      ELSE [m EXCEPT
                               !.table = alter_table_add_column(
                                             @, prop, data_type, default_value),
                               !.added = @ \cup {prop}],
                 new_properties, n + 1)

\* CREATE TABLE with one column per property of the schema
RECURSIVE create_table_columns(_, _, _)
create_table_columns(table, properties, n) ==
    IF n > Len(properties) THEN [table EXCEPT !.exists = TRUE]
    ELSE create_table_columns(
             alter_table_add_column(table, properties[n].k,
                                    to_sql(properties[n].schema), NoDefault),
             properties, n + 1)

\* upsert_table_schema(cur, table_name, schema, key_properties,
\* table_version), on the columns of the table
upsert_table_schema_columns(table, schema) ==
    IF table.exists
    THEN merge_put_schemas([table |-> table, raised |-> "", added |-> {}], schema, 1)
    ELSE [table |-> create_table_columns(table, schema, 1), raised |-> "", added |-> {}]

\* the column of a field holds values of another type than the field's
copy_mismatch(table, schema) ==
    \E n \in DOMAIN schema :
        table.columns[schema[n].k].data_type
            \notin {to_sql(schema[n].schema), to_sql(make_nullable(schema[n].schema))}

\* persist_rows: the rows of the batch are copied into the table, each
\* field's values into the column of its name
RECURSIVE persist_rows_columns(_, _, _)
persist_rows_columns(table, schema, n) ==
    IF n > Len(schema) THEN [table EXCEPT !.table_empty = FALSE]
    ELSE persist_rows_columns(
             [table EXCEPT
                 !.values[schema[n].k] =
                     IF @ # <<>> /\ @[Len(@)] = schema[n].schema.t THEN @
                     ELSE Append(@, schema[n].schema.t),
                 !.flushed[schema[n].k] =
                     IF @ # <<>> /\ @[Len(@)] = schema[n].schema.t THEN @
                     ELSE Append(@, schema[n].schema.t)],
             schema, n + 1)

(***************************************************************************)
(* The harness for the columns of one table under write_batch: the table   *)
(* does not exist at first; each write upserts the table's schema with a   *)
(* local schema of at most MaxFields fields and persists the batch's rows, *)
(* at most MaxUpserts times over.  The write is one transaction: an error  *)
(* leaves the table as it was and ends the run.  COPY of a value into a    *)
(* column of another type fails or succeeds, as the value decides.         *)
(***************************************************************************)
FieldNames == {"age", "name"}

MergeSchemas(most) ==
    {schema \in UNION {[1 .. n -> {LocalField(name, s) : name \in FieldNames, s \in ColumnSchemas}] : n \in 1 .. most} :
        \A i, j \in DOMAIN schema : i # j => schema[i].k # schema[j].k}

NoTable == [exists |-> FALSE, columns |-> <<>>, mappings |-> <<>>, table_empty |-> TRUE, values |-> <<>>, flushed |-> [name \in FieldNames |-> <<>>]]

\* write_batch up to the return of upsert_table_schema
UpsertTableSchema ==
    /\ call.op \in {"connect", "persist_rows"}
    /\ call.raised = ""
    /\ call.upserts < MaxUpserts
    /\ \E schema \in MergeSchemas(MaxFields) :
         LET done == upsert_table_schema_columns(call.remote, schema)
         IN  call' = [op |-> "upsert_table_schema",
                      upserts |-> call.upserts + 1,
                      before |-> call.remote,
                      remote |-> done.table,
                      schema |-> schema,
                      raised |-> done.raised,
                      added |-> done.added]
    /\ UNCHANGED <<pc, line_count, streams, sb, tables, txOpen, message_counter, add_wm, flush_wm, added_to, state_queue, emitted, accepted, discarded, committed, ops, up>>

\* write_batch from persist_rows to COMMIT, or to ROLLBACK when it raised
PersistRows ==
    /\ call.op = "upsert_table_schema"
    /\ \E copied \in BOOLEAN :
         /\ call.raised # "" => ~ copied
         /\ (call.raised = "" /\ ~ copy_mismatch(call.remote, call.schema)) => copied
         /\ call' = [op |-> "persist_rows",
                     upserts |-> call.upserts,
                     was_empty |-> call.before.table_empty,
                     remote |-> IF copied
                                THEN persist_rows_columns(call.remote, call.schema, 1)
                                ELSE call.before,
                     raised |-> IF call.raised # "" THEN call.raised
                                ELSE IF copied THEN "" ELSE "COPY",
                     added |-> IF copied THEN call.added ELSE {}]
    /\ UNCHANGED <<pc, line_count, streams, sb, tables, txOpen, message_counter, add_wm, flush_wm, added_to, state_queue, emitted, accepted, discarded, committed, ops, up>>

InitMerge ==
    /\ PipelineAtRest
    /\ call = [op |-> "connect", upserts |-> 0, remote |-> NoTable, raised |-> ""]

NextMerge == UpsertTableSchema \/ PersistRows

SpecMerge == InitMerge /\ [][NextMerge]_vars

\* the latest write_batch committed
Flushed == call.op = "persist_rows" /\ call.raised = ""

\* a column of a nullable SQL type
NullableColumn(table, name) ==
    /\ name \in DOMAIN table.columns
    /\ table.columns[name].data_type
         \in {to_sql(ColumnSchema(t, TRUE)) : t \in {"integer", "string", "boolean"}}

\* C25, as stated: when the stream declared `age` as integer, then as string,
\* after the second flush the table has nullable columns age__i and age__s,
\* no column age, the values of age in age__i, and both columns recorded as
\* mappings from raw name age.
C25_Original ==
    (/\ Flushed
     /\ call.remote.flushed["age"] = <<"integer", "string">>)
    => /\ NullableColumn(call.remote, "age__i")
       /\ NullableColumn(call.remote, "age__s")
       /\ "age" \notin DOMAIN call.remote.columns
       /\ "integer" \in Range(call.remote.values["age__i"])
       /\ \A name \in {"age__i", "age__s"} :
            /\ name \in DOMAIN call.remote.mappings
            /\ call.remote.mappings[name].from = "age"

\* What write_batch does instead: a field flushed a second time keeps the
\* one column of its name, of the SQL type it was created with, and that
\* column holds the values of every type the field was declared with.
ColumnKeptAcrossTypes ==
    Flushed =>
        \A name \in FieldNames :
            call.remote.flushed[name] # <<>> =>
                /\ name \in DOMAIN call.remote.columns
                /\ call.remote.values[name] = call.remote.flushed[name]
                /\ call.remote.columns[name].data_type
                     \in {to_sql(ColumnSchema(call.remote.flushed[name][1], nullable)) :
                             nullable \in BOOLEAN}
                /\ call.remote.mappings = <<>>

\* upsert_table_helper, were it called, splits the column: after an upsert
\* of `age` as string on a table whose one column age is integer, the table has
\* nullable age__i and age__s mapped from age, no column age, and age__i
\* holds what age held.
HelperSplitsByType ==
    (/\ Upserted
     /\ Len(call.schema) = 1
     /\ call.schema[1].k = "age"
     /\ call.schema[1].schema.t = "string"
     /\ DOMAIN call.before.columns = {"age"}
     /\ call.before.columns["age"].t = "integer")
    => /\ "age" \notin DOMAIN call.remote.columns
       /\ \A name \in {"age__i", "age__s"} :
            /\ name \in DOMAIN call.remote.columns
            /\ is_nullable(call.remote.columns[name])
            /\ name \in DOMAIN call.remote.mappings
            /\ call.remote.mappings[name].from = "age"
       /\ call.remote.columns["age__i"].t = "integer"
       /\ call.remote.columns["age__s"].t = "string"
       /\ call.before.values["age"] \subseteq call.remote.values["age__i"]

\* C27, as stated: a column added to a table that holds rows is added
\* nullable, whatever the local schema declares.
C27_Original ==
    (Flushed /\ ~ call.was_empty) =>
        \A name \in call.added : NullableColumn(call.remote, name)

\* upsert_table_helper, were it called, adds every column nullable to a
\* table that holds rows, and a column that is not nullable only to an
\* empty table.
HelperAddsNullableToRows ==
    Upserted =>
        \A name \in DOMAIN call.remote.columns \ DOMAIN call.before.columns :
            ~ is_nullable(call.remote.columns[name]) => call.before.table_empty

(***************************************************************************)
(* The injected primary key: BufferedSingerStream.update_schema on the     *)
(* schema's properties and PostgresTarget.process_record_message on the    *)
(* records of a batch.  Properties and records are dicts of the JSON       *)
(* values above.                                                           *)
(***************************************************************************)
\* properties[name] = schema unless name is in properties
setdefault_property(properties, name, schema) ==
    IF dict_has(properties, name) THEN properties ELSE dict_set(properties, name, schema)

\* update_schema(schema, key_properties): the properties it installs
update_schema_properties(properties, key_properties) ==
    LET received == setdefault_property(properties, "_sdc_received_at",
                                        JsonSchema("string", TRUE, <<>>))
        sequenced == setdefault_property(received, SINGER_SEQUENCE,
                                         JsonSchema("integer", TRUE, <<>>))
        versioned == setdefault_property(sequenced, "_sdc_table_version",
                                         JsonSchema("integer", TRUE, <<>>))
        batched == setdefault_property(versioned, "_sdc_batched_at",
                                       JsonSchema("string", TRUE, <<>>))
    IN  IF Len(key_properties) = 0
        THEN dict_set(batched, SINGER_PK, JsonSchema("string", FALSE, <<>>))
        ELSE batched

\* record.get(key) is None
get_is_none(record, key) ==
    ~ dict_has(record, key) \/ dict_get(record, key).t = "NoneType"

\* a process_record_message that injects the key only where the record has
\* no such member
process_record_message_where_absent(use_uuid_pk, batched_at, record_message, uuid4, now) ==
    LET record == dict_get(record_message, "record").items
        versioned == IF dict_has(record_message, "version")
                     THEN dict_set(record, "_sdc_table_version",
                                   dict_get(record_message, "version"))
                     ELSE record
        keyed == IF use_uuid_pk /\ ~ dict_has(versioned, SINGER_PK)
                 THEN dict_set(versioned, SINGER_PK, JsonStr(uuid4))
                 ELSE versioned
        batched == dict_set(keyed, "_sdc_batched_at", JsonStr(batched_at))
    IN  dict_set(batched, SINGER_SEQUENCE,
                 IF dict_has(record_message, "sequence")
                 THEN dict_get(record_message, "sequence")
                 ELSE JsonInt(now))

\* process_record_message(use_uuid_pk, batched_at, record_message), with
\* the value uuid.uuid4() returns and the timestamp of arrow.get()
process_record_message(use_uuid_pk, batched_at, record_message, uuid4, now) ==
    LET record == dict_get(record_message, "record").items
        versioned == IF dict_has(record_message, "version")
                     THEN dict_set(record, "_sdc_table_version",
                                   dict_get(record_message, "version"))
                     ELSE record
        received == IF /\ dict_has(record_message, "time_extracted")
                       /\ get_is_none(versioned, "_sdc_received_at")
                    THEN dict_set(versioned, "_sdc_received_at",
                                  dict_get(record_message, "time_extracted"))
                    ELSE versioned
        keyed == IF use_uuid_pk /\ get_is_none(received, SINGER_PK)
                 THEN dict_set(received, SINGER_PK, JsonStr(uuid4))
                 ELSE received
        batched == dict_set(keyed, "_sdc_batched_at", JsonStr(batched_at))
    IN  dict_set(batched, SINGER_SEQUENCE,
                 IF dict_has(record_message, "sequence")
                 THEN dict_get(record_message, "sequence")
                 ELSE JsonInt(now))

(***************************************************************************)
(* The harness: one stream receives SCHEMA messages with or without        *)
(* key_properties, buffers at most MaxBuffered record messages and writes  *)
(* its batch.                                                              *)
(***************************************************************************)
MaxBuffered == 2

\* the schemas' properties: id, with or without a declared _sdc_primary_key
PkProperties ==
    {<<Keyed("id", JsonSchema("integer", FALSE, <<>>))>>,
     <<Keyed("id", JsonSchema("integer", FALSE, <<>>)),
       Keyed(SINGER_PK, JsonSchema("string", TRUE, <<>>))>>}

PkKeyProperties == {<<>>, <<"id">>}

\* the record messages: records with no _sdc_primary_key, a null one or a
\* given one, with or without `version` and `sequence`
PkRecords ==
    {<<Keyed("id", JsonInt(1))>>,
     <<Keyed("id", JsonInt(1)), Keyed(SINGER_PK, JsonNone)>>,
     <<Keyed("id", JsonInt(1)), Keyed(SINGER_PK, JsonStr("given"))>>}

PkRecordMessages ==
    {<<Keyed("record", JsonDict(record))>> \o versioned \o sequenced :
        record \in PkRecords,
        versioned \in {<<>>, <<Keyed("version", JsonInt(1))>>},
        sequenced \in {<<>>, <<Keyed("sequence", JsonInt(5))>>}}

Uuid4 == {"uuid-1", "uuid-2"}

PkSchemaMessage ==
    /\ \E properties \in PkProperties, key_properties \in PkKeyProperties :
         call' = [call EXCEPT
                     !.op = "update_schema",
                     !.declared = key_properties,
                     !.b = update_schema(@, FALSE, key_properties),
                     !.properties = update_schema_properties(properties, key_properties),
                     !.processed = <<>>]
    /\ UNCHANGED <<pc, line_count, streams, sb, tables, txOpen, message_counter, add_wm, flush_wm, added_to, state_queue, emitted, accepted, discarded, committed, ops, up>>

PkRecordMessage ==
    /\ call.op # "connect"
    /\ Len(call.records) < MaxBuffered
    /\ \E record_message \in PkRecordMessages :
         call' = [call EXCEPT !.op = "add_record_message",
                              !.records = Append(@, record_message),
                              !.processed = <<>>]
    /\ UNCHANGED <<pc, line_count, streams, sb, tables, txOpen, message_counter, add_wm, flush_wm, added_to, state_queue, emitted, accepted, discarded, committed, ops, up>>

PkWriteBatch ==
    /\ call.op # "connect"
    /\ call.records # <<>>
    /\ \E uuids \in [DOMAIN call.records -> Uuid4] :
         call' = [call EXCEPT
                     !.op = "write_batch",
                     !.records = <<>>,
                     !.processed =
                         [n \in DOMAIN call.records |->
                             process_record_message(call.b.use_uuid_pk, "now",
                                                    call.records[n], uuids[n], 9)]]
    /\ UNCHANGED <<pc, line_count, streams, sb, tables, txOpen, message_counter, add_wm, flush_wm, added_to, state_queue, emitted, accepted, discarded, committed, ops, up>>

InitPk ==
    /\ PipelineAtRest
    /\ call = [op |-> "connect", declared |-> <<>>, b |-> NoStream,
               properties |-> <<>>, records |-> <<>>, processed |-> <<>>]

NextPk == PkSchemaMessage \/ PkRecordMessage \/ PkWriteBatch

SpecPk == InitPk /\ [][NextPk]_vars

\* C28: when the declared key_properties is empty, update_schema sets
\* use_uuid_pk, makes key_properties [_sdc_primary_key] and adds the
\* non-nullable string column _sdc_primary_key to the schema; when it is not
\* empty, use_uuid_pk is false and key_properties is the declared list; and
\* every record of a batch written for a use_uuid_pk stream carries a
\* _sdc_primary_key that is not null.
C28_InjectedPrimaryKey ==
    /\ call.op # "connect" =>
         IF call.declared = <<>>
         THEN /\ call.b.use_uuid_pk
              /\ call.b.key_properties = <<SINGER_PK>>
              /\ dict_has(call.properties, SINGER_PK)
              /\ dict_get(call.properties, SINGER_PK).t = "string"
              /\ ~ dict_get(call.properties, SINGER_PK).nullable
         ELSE /\ ~ call.b.use_uuid_pk
              /\ call.b.key_properties = call.declared
    /\ (call.op = "write_batch" /\ call.b.use_uuid_pk) =>
         \A n \in DOMAIN call.processed :
             /\ dict_has(call.processed[n], SINGER_PK)
             /\ dict_get(call.processed[n], SINGER_PK).t = "str"

\* C28 happens: a batch of a stream without key_properties was written,
\* with a record that came without a defined _sdc_primary_key and now has
\* a uuid.
C28_Witness ==
    /\ call.op = "write_batch"
    /\ call.declared = <<>>
    /\ call.b.use_uuid_pk
    /\ \E n \in DOMAIN call.processed :
         dict_get(call.processed[n], SINGER_PK).s \in Uuid4

\* the step handles an ACTIVATE_VERSION line for the stream (such a line
\* reads no record and registers no stream, which is tested first)
ActivateVersionOf(stream) ==
    /\ Reading
    /\ line_count' = line_count + 1
    /\ message_counter' = message_counter
    /\ streams' = streams
    /\ \E version \in Versions :
         \E w1 \in activate_version_line(World, stream, version) :
            \E w \in probe(w1) : Become(w, "running")

\* the step ends stream_to_target with the error and calls neither
\* write_batch nor activate_version
FatalWithoutWrite ==
    /\ pc' = "failed"
    /\ ops' = <<>>
    /\ tables' = tables
    /\ sb' = sb
    /\ committed' = committed
    /\ emitted' = emitted

\* C29: a line of unknown type, and an ACTIVATE_VERSION line for a stream
\* that has had no SCHEMA line, end stream_to_target with an error, without
\* a call of write_batch or activate_version for the line; once it has
\* raised, stream_to_target takes no further step.
C29_FatalLines ==
    [][/\ UnknownLine => FatalWithoutWrite
       /\ \A stream \in Streams :
            (stream \notin Range(streams) /\ ActivateVersionOf(stream))
                => FatalWithoutWrite
       /\ pc = "running"]_vars

\* C29 happens: a line of unknown type ended the run after a stream was
\* registered and had a record buffered.
C29_Witness ==
    /\ pc = "failed"
    /\ call.op = "_line_handler"
    /\ \E stream \in Range(streams) : sb[stream].count > 0

\* C30: an ACTIVATE_VERSION line for a registered stream first calls
\* write_batch for the stream; activate_version is called next, for the same
\* stream, exactly when that write raised nothing, and a write that raised
\* ends stream_to_target; when the line has been handled without error the
\* stream's buffer is empty.
C30_WriteBeforeActivate ==
    [][\A stream \in Streams :
          (stream \in Range(streams) /\ ActivateVersionOf(stream)) =>
              /\ Len(ops') >= 1
              /\ ops'[1].op = "write_batch"
              /\ ops'[1].stream = stream
              /\ ops'[1].outcome = "error" => (pc' = "failed" /\ Len(ops') = 1)
              /\ ops'[1].outcome # "error" =>
                    /\ Len(ops') >= 2
                    /\ ops'[2].op = "activate_version"
                    /\ ops'[2].stream = stream
              /\ \A n \in DOMAIN ops' : ops'[n].op = "activate_version" => n = 2
              /\ pc' = "running" =>
                    /\ sb'[stream].buffer = <<>>
                    /\ sb'[stream].count = 0]_vars

\* C30 happens: an ACTIVATE_VERSION line wrote buffered records and then
\* activated the version, and the run goes on.
C30_Witness ==
    /\ pc = "running"
    /\ Len(ops) >= 2
    /\ ops[1].op = "write_batch"
    /\ ops[1].written # {}
    /\ ops[2].op = "activate_version"
    /\ ops[2].outcome # "error"
    /\ sb[ops[1].stream].buffer = <<>>

(***************************************************************************)
(* End of input: the forced flush of every buffer.                         *)
(***************************************************************************)

\* The step that ends the loop of stream_to_target: no line is counted and
\* no line is rejected.
AtEndOfInput ==
    /\ pc = "running"
    /\ pc' # "running"
    /\ line_count' = line_count
    /\ call' = call

WrittenAt(stream) ==
    {j \in DOMAIN ops' : ops'[j].op = "write_batch" /\ ops'[j].stream = stream}

\* C31: at end of input write_batch is called once on the buffer of every
\* registered stream, full or not, and also after the write of an earlier
\* buffer has failed; stream_to_target raises exactly when one of these
\* writes failed; when it returns, every buffer has count 0 and holds no
\* record, and every record that was buffered is among the committed ones.
C31_ForcedFlushAtEndOfInput ==
    [][AtEndOfInput =>
          /\ \A i \in DOMAIN streams : Cardinality(WrittenAt(streams[i])) = 1
          /\ pc' = "failed" <=> \E j \in DOMAIN ops' : ops'[j].outcome = "error"
          /\ pc' = "done" =>
                \A s \in Streams :
                    /\ sb'[s].count = 0
                    /\ sb'[s].buffer = <<>>
                    /\ Ids(sb[s].buffer) \subseteq committed']_vars

\* stream_to_target has raised at end of input: the write of the first
\* buffer failed, and the buffer of the second stream, which was not full,
\* was still written and committed.
C31_Witness ==
    /\ pc = "failed"
    /\ call = NoCall
    /\ Len(ops) = 2
    /\ ops[1].op = "write_batch" /\ ops[1].outcome = "error"
    /\ ops[2].op = "write_batch" /\ ops[2].outcome = "ok"
    /\ Len(ops[2].before) = 1
    /\ ops[2].written # {}
    /\ sb[ops[2].stream].count = 0

(***************************************************************************)
(* The harness: version activation on its own.  Two streams, `a` and `a0`, *)
(* write batches of one record into the store and activate versions; the   *)
(* store is kept in `call.tables`, the store at the start of the latest    *)
(* activation in `call.before`.                                            *)
(***************************************************************************)
StreamA0 == <<"a", "0">>
ActivateStreams == {StreamA, StreamA0}
ActivateVersions == {1, 2, 10}

\* the buffer of a stream that has read SCHEMA and one RECORD of `version`
OneRecordBuffer(hasArray, version) ==
    add_record_message(BufferedSingerStream(hasArray, <<"id">>),
                       [id |-> 1, version |-> version, tags |-> 1, size |-> 1],
                       TRUE).sb

\* target.write_batch(stream_buffer)
ActivateWriteBatch ==
    /\ \E stream \in ActivateStreams, version \in ActivateVersions, hasArray \in BOOLEAN :
         \E r \in write_batch(call.tables, FALSE, OneRecordBuffer(hasArray, version), stream) :
            call' = [op |-> "write_batch", stream |-> stream, version |-> version,
                     outcome |-> r.op.outcome, before |-> <<>>, tables |-> r.tables]
    /\ UNCHANGED <<pc, line_count, streams, sb, tables, txOpen, message_counter, add_wm, flush_wm, added_to, state_queue, emitted, accepted, discarded, committed, ops, up>>

\* target.activate_version(stream_buffer, version)
ActivateVersion ==
    /\ \E stream \in ActivateStreams, version \in ActivateVersions :
         \E a \in activate_version(call.tables, FALSE, NoStream, stream, version) :
            call' = [op |-> "activate_version", stream |-> stream, version |-> version,
                     outcome |-> a.op.outcome, before |-> call.tables,
                     tables |-> a.tables]
    /\ UNCHANGED <<pc, line_count, streams, sb, tables, txOpen, message_counter, add_wm, flush_wm, added_to, state_queue, emitted, accepted, discarded, committed, ops, up>>

InitActivate ==
    /\ PipelineAtRest
    /\ call = [op |-> "connect", stream |-> <<>>, version |-> None,
               outcome |-> "ok", before |-> <<>>, tables |-> <<>>]

NextActivate == ActivateWriteBatch \/ ActivateVersion

SpecActivate == InitActivate /\ [][NextActivate]_vars

\* name is `prefix`, or `prefix` followed by the separator and a path
IsTableOf(prefix, name) ==
    \/ name = prefix
    \/ /\ Len(name) > Len(prefix) + Len(NESTED_SEPARATOR)
       /\ SubSeq(name, 1, Len(prefix) + Len(NESTED_SEPARATOR)) = prefix \o NESTED_SEPARATOR

\* the tables of version `version` of `stream`, and the live tables they
\* replace
TouchedByActivation(stream, version, name) ==
    \/ IsTableOf(ShadowOf(stream, version), name)
    \/ \E shadow \in DOMAIN call.before :
          /\ IsTableOf(ShadowOf(stream, version), shadow)
          /\ name = live_table_name(stream, ShadowOf(stream, version), shadow)

\* C32, as stated: an activation of version v of a stream leaves every
\* table unchanged that is neither a table of version v of the stream nor
\* the live table such a table replaces.
C32_Original ==
    call.op = "activate_version" =>
        \A name \in DOMAIN call.before :
            ~ TouchedByActivation(call.stream, call.version, name) =>
                /\ name \in DOMAIN call.tables
                /\ call.tables[name] = call.before[name]

\* An activation changes tables only through names the LIKE pattern
\* matches and the live names computed from them.
ActivationTouchesMatchedOnly ==
    call.op = "activate_version" =>
        \A name \in DOMAIN call.before :
            (/\ ~ like_prefix(ShadowOf(call.stream, call.version), name)
             /\ ~ \E n \in DOMAIN call.before :
                     /\ like_prefix(ShadowOf(call.stream, call.version), n)
                     /\ name = live_table_name(call.stream,
                                               ShadowOf(call.stream, call.version), n))
            => /\ name \in DOMAIN call.tables
               /\ call.tables[name] = call.before[name]

(***************************************************************************)
(* Batches without array elements.                                         *)
(***************************************************************************)

\* a write_batch that neither the backend, nor a key_properties change, nor
\* a version comparison has failed
WriteNotFailedBefore(o) ==
    o.branch \notin {"backend", "commit", "key_properties", "TypeError"}

\* C33, as stated: a write_batch of a batch whose schema declares an array
\* property and none of whose records has an element for it commits, the
\* root rows of its records written and the rows of the subtable as they
\* were.
C33_Original ==
    \A o \in WriteOps :
        (/\ sb[o.stream].hasArray
         /\ o.before # <<>>
         /\ \A i \in DOMAIN o.before : o.before[i].tags = 0
         /\ WriteNotFailedBefore(o))
        => /\ o.outcome = "ok"
           /\ o.written = Ids(o.before)
           /\ \A n \in nested_tables(o.root, sb[o.stream]) :
                 /\ n \in DOMAIN o.tables_after
                 /\ n \in DOMAIN o.tables_before =>
                       o.tables_after[n].rows = o.tables_before[n].rows

(***************************************************************************)
(* The harness: batches that replace rows.  One stream with an array       *)
(* property writes batches of records whose keys repeat from batch to      *)
(* batch; the store is kept in `call.tables`, the store at the start of    *)
(* the latest write in `call.before`.                                      *)
(***************************************************************************)
MaxElements == 2       \* elements of a record's array property

ReplaceKeys == {1, 2}

\* the batches: one record per key of a non-empty set of keys
ReplaceBatches ==
    {b \in UNION {[ks -> 0 .. MaxElements] : ks \in SUBSET ReplaceKeys} : DOMAIN b # {}}

RECURSIVE BufferOf(_, _)
\* the buffer after SCHEMA and one RECORD per key of `keys`
BufferOf(batch, keys) ==
    IF keys = {} THEN BufferedSingerStream(TRUE, <<"id">>)
    ELSE LET k == SetMax(keys)
         IN  add_record_message(BufferOf(batch, keys \ {k}),
                                [id |-> k, version |-> None, tags |-> batch[k], size |-> 1],
                                TRUE).sb

\* target.write_batch(stream_buffer)
ReplaceWriteBatch ==
    /\ \E batch \in ReplaceBatches :
         \E r \in write_batch(call.tables, FALSE, BufferOf(batch, DOMAIN batch), StreamA) :
            call' = [op |-> "write_batch", batch |-> batch, outcome |-> r.op.outcome,
                     branch |-> r.op.branch, before |-> call.tables, tables |-> r.tables]
    /\ UNCHANGED <<pc, line_count, streams, sb, tables, txOpen, message_counter, add_wm, flush_wm, added_to, state_queue, emitted, accepted, discarded, committed, ops, up>>

InitReplace ==
    /\ PipelineAtRest
    /\ call = [op |-> "connect", batch |-> <<>>, outcome |-> "ok", branch |-> "",
               before |-> <<>>, tables |-> <<>>]

NextReplace == ReplaceWriteBatch

SpecReplace == InitReplace /\ [][NextReplace]_vars

SubtableA == StreamA \o NESTED_SEPARATOR \o ArrayPath

\* the array positions the subtable holds under parent key p
PositionsOf(store, p) ==
    IF SubtableA \in DOMAIN store
    THEN {r.lvl : r \in {x \in store[SubtableA].rows : x.pk = p}}
    ELSE {}

\* the batch's record of key p replaces a row of the root table
Replaces(p) ==
    /\ call.op = "write_batch"
    /\ call.outcome = "ok"
    /\ p \in DOMAIN call.batch
    /\ StreamA \in DOMAIN call.before
    /\ \E old \in call.before[StreamA].rows : old.pk = p

\* C34, as stated: after a committed write in which the record of key p
\* replaces the root row of p, the subtable holds under p exactly one row
\* per position of the replacing record's array.
C34_Original ==
    \A p \in ReplaceKeys :
        Replaces(p) => PositionsOf(call.tables, p) = 0 .. (call.batch[p] - 1)

\* A replacing record with at least one element leaves exactly its own
\* positions, also when its array is shorter than the replaced one.
ShorterArrayReplaces ==
    \A p \in ReplaceKeys :
        (Replaces(p) /\ call.batch[p] > 0)
        => PositionsOf(call.tables, p) = 0 .. (call.batch[p] - 1)

\* A replacing record without elements leaves the rows of the replaced
\* record's array in the subtable.
EmptyArrayKeepsRows ==
    \A p \in ReplaceKeys :
        (Replaces(p) /\ call.batch[p] = 0)
        => PositionsOf(call.tables, p) = PositionsOf(call.before, p)

(***************************************************************************)
(* The harness: the probing policy.  One stream reads SCHEMA, RECORD and   *)
(* STATE lines for MaxProbeLines lines, on an empty store; every record is *)
(* valid and carries no version.                                           *)
(***************************************************************************)
MaxProbeLines == 9

Probing == pc = "running" /\ line_count < MaxProbeLines

ProbeSchemaLine ==
    /\ Probing
    /\ \E w \in probe(schema_line(World, StreamA, FALSE, <<"id">>)) : Become(w, "running")
    /\ line_count' = line_count + 1

ProbeRecordLine ==
    /\ Probing
    /\ \E w \in probe(handle_record_message(World, StreamA, None, TRUE, 0, 1)) :
          Become(w, "running")
    /\ line_count' = line_count + 1

ProbeStateLine ==
    /\ Probing
    /\ \E w \in probe(handle_state_message(World, line_count)) : Become(w, "running")
    /\ line_count' = line_count + 1

InitProbe ==
    /\ PipelineAtRest
    /\ call = NoCall

NextProbe == ProbeSchemaLine \/ ProbeRecordLine \/ ProbeStateLine

SpecProbe == InitProbe /\ [][NextProbe]_vars

\* C35: the count of a buffer, after a line and at every write_batch of a
\* probe, is at most max_rows + batch_detection_threshold.
C35_BufferGrowthBounded ==
    /\ \A s \in Streams : sb[s].count <= sb[s].max_rows + batch_detection_threshold
    /\ \A o \in WriteOps :
          Len(o.before) <= sb[o.stream].max_rows + batch_detection_threshold

\* A probe has found more than max_rows records in a buffer, flushed them
\* and the run goes on.
C35_Witness ==
    /\ pc = "running"
    /\ \E o \in WriteOps :
          /\ Len(o.before) > sb[o.stream].max_rows
          /\ o.outcome = "ok"
          /\ sb[o.stream].count = 0

(***************************************************************************)
(* Nullability of the remote columns under upsert_table_helper.            *)
(***************************************************************************)

\* the first field of the upserted schema meets its own remote column: the
\* canonical column exists and the field's raw name is the canonical name
\* or a raw name the table's mappings know
MeetsOwnColumn ==
    /\ call.op = "upsert_table_helper"
    /\ LET field == call.schema[1]
           canonical == canonicalize_identifier(field.k)
       IN  /\ canonical \in DOMAIN call.before.columns
           /\ call.before.columns[canonical].t = field.schema.t
           /\ \/ field.k = canonical
              \/ field.k \in {call.before.mappings[c].from : c \in DOMAIN call.before.mappings}

RemoteNullable == is_nullable(call.before.columns[canonicalize_identifier(call.schema[1].k)])
LocalNullable == is_nullable(call.schema[1].schema)

\* the table but for the effects of the fields after the first
AfterFirstField ==
    upsert_table_helper(call.before, <<call.schema[1]>>).remote

\* a column of both tables that is nullable in the first is nullable in the
\* second
NoLessNullable(before, after) ==
    \A name \in DOMAIN before.columns \cap DOMAIN after.columns :
        is_nullable(before.columns[name]) => is_nullable(after.columns[name])

ColumnNameReusedNonNullable ==
    /\ call.op = "upsert_table_helper"
    /\ call.raised = ""
    /\ ~ NoLessNullable(call.before, call.remote)

\* A column that keeps its name and type over an upsert or a write does not
\* become non-nullable.
KeptColumnNoLessNullable ==
    call.op \in {"upsert_table_helper", "write_table_batch"} =>
        \A name \in DOMAIN call.before.columns \cap DOMAIN call.remote.columns :
            (/\ call.before.columns[name].t = call.remote.columns[name].t
             /\ is_nullable(call.before.columns[name]))
            => is_nullable(call.remote.columns[name])

\* Without a field named `Age` no column becomes non-nullable.
NoLessNullableWithoutCollision ==
    (/\ call.op = "upsert_table_helper"
     /\ \A c \in DOMAIN call.before.mappings : call.before.mappings[c].from = "age"
     /\ \A n \in DOMAIN call.schema : call.schema[n].k = "age")
    => NoLessNullable(call.before, call.remote)

(***************************************************************************)
(* A SCHEMA line for a stream that has a buffer (specification SpecKeys).  *)
(***************************************************************************)

\* the key_properties the buffer holds for a declaration
Installed(key_properties) ==
    IF Len(key_properties) = 0 THEN <<SINGER_PK>> ELSE key_properties

\* C37: a SCHEMA line for a stream that has a buffer changes, of the
\* buffer, the schema, the key_properties and use_uuid_pk, which follows
\* them, and nothing else, and leaves the store alone; the next write_batch
\* writes the records the buffer holds, those buffered before the SCHEMA
\* line among them, and a table it creates gets the key_properties of the
\* latest SCHEMA line.
C37_SchemaLineKeepsBuffer ==
    [][/\ (call'.op = "schema" /\ IsRegistered(World, StreamA)) =>
             /\ sb'[StreamA] =
                   [sb[StreamA] EXCEPT
                       !.hasArray = sb'[StreamA].hasArray,
                       !.key_properties = sb'[StreamA].key_properties,
                       !.use_uuid_pk = sb'[StreamA].use_uuid_pk]
             /\ sb'[StreamA].key_properties
                   = Installed(call'.declared[Len(call'.declared)])
             /\ sb'[StreamA].use_uuid_pk = (call'.declared[Len(call'.declared)] = <<>>)
             /\ tables' = tables
             /\ streams' = streams
       /\ call'.op = "write_batch" =>
             /\ Len(ops') = 1
             /\ ops'[1].before = sb[StreamA].buffer
             /\ ops'[1].outcome = "ok" =>
                   /\ ops'[1].written = Ids(sb[StreamA].buffer)
                   /\ sb'[StreamA].buffer = <<>>
                   /\ (sb[StreamA].count > 0 /\ StreamA \notin DOMAIN tables) =>
                         tables'[StreamA].meta.key_properties
                            = Installed(call.declared[Len(call.declared)])]_vars

\* A SCHEMA line has changed the key_properties of a buffer that holds a
\* record.
C37_Witness ==
    /\ call.op = "schema"
    /\ Len(call.declared) = 2
    /\ call.declared[1] # call.declared[2]
    /\ sb[StreamA].count = 1
    /\ sb[StreamA].key_properties = Installed(call.declared[2])

(***************************************************************************)
(* The counters of the buffer (specification SpecBuffer).                  *)
(***************************************************************************)

\* C38: count is the number of records the buffer holds and size is 0 when
\* count is 0; flush_buffer empties the buffer and sets count and size to
\* 0, and leaves every other field, lifetime_max_version and
\* invalid_records among them, as it was; a record of a stale version is
\* dropped whatever the buffer holds, also when it has just been emptied.
C38_BufferCounters ==
    /\ Buffer.count = Len(Buffer.buffer)
    /\ Buffer.count = 0 => Buffer.size = 0
    /\ call.op = "flush_buffer" =>
          /\ Buffer.buffer = <<>>
          /\ Buffer.count = 0
          /\ Buffer.size = 0
          /\ Buffer = [call.before EXCEPT !.buffer = <<>>, !.count = 0, !.size = 0]
          /\ Buffer.lifetime_max_version = call.before.lifetime_max_version
          /\ Buffer.invalid_records = call.before.invalid_records
    /\ (Added /\ StaleVersion) =>
          /\ ~ call.added
          /\ Buffer.buffer = call.before.buffer
          /\ Buffer.lifetime_max_version = call.before.lifetime_max_version

\* flush_buffer has emptied a buffer that held a record of a version and
\* had one invalid record on its list.
C38_Witness ==
    /\ call.op = "flush_buffer"
    /\ call.before.count > 0
    /\ call.before.size > 0
    /\ Buffer.lifetime_max_version # None
    /\ Buffer.invalid_records # <<>>
    /\ Buffer.count = 0

\* A record of a stale version was dropped by a buffer that holds nothing.
StaleDroppedByEmptyBuffer ==
    /\ Added /\ StaleVersion
    /\ call.before.count = 0
    /\ ~ call.added

(***************************************************************************)
(* write_batch on an empty buffer.                                         *)
(***************************************************************************)

\* the write_batch operations of the step on a buffer that held no record
EmptyWrites ==
    {i \in DOMAIN ops' : ops'[i].op = "write_batch" /\ ops'[i].before = <<>>}

\* the operation that follows operation i in the step is the activation of
\* an ACTIVATE_VERSION line
ActivationAfter(i) ==
    /\ i + 1 \in DOMAIN ops'
    /\ ops'[i + 1].op = "activate_version"

\* the stream of the step's operation i has had no RECORD line
NoRecordSoFar(i) == ops'[i].stream \notin added_to

ActivationRaisedOnEmptiedBuffer ==
    /\ pc = "failed"
    /\ Len(ops) = 2
    /\ ops[1].branch = "empty"
    /\ ops[2].op = "activate_version"
    /\ ops[2].branch = "swap"

-----------------------------------------------------------------------------
\* Schema and records denested side by side (sql_base.py, lines 691-720).
\*
\* _get_table_batches denests the stream's schema and the batch's records
\* and pairs the rows with the tables by name. The schemas are those of
\* StreamSchemas; the batch is one record that conforms to the schema: every
\* property present, every array of the same length, and every nullable
\* value either given or null.

RECURSIVE Conforming(_, _, _)
\* the value of `schema` whose arrays hold `len` elements and whose nullable
\* values are null when `nulls`
Conforming(schema, len, nulls) ==
    IF is_nullable(schema) /\ nulls THEN JsonNone
    ELSE CASE is_object(schema) ->
                JsonDict([n \in DOMAIN schema.properties |->
                            Keyed(schema.properties[n].k,
                                  Conforming(schema.properties[n], len, nulls))])
           [] is_iterable(schema) ->
                JsonList([n \in 1 .. len |->
                            Conforming(schema.properties[1], len, nulls)])
           [] schema.t = "integer" -> JsonInt(7)
           [] OTHER -> JsonStr("x")

\* the record of stream `users` conforming to `schema`, with the
\* _sdc_sequence that process_record_message adds
ConformingRecord(schema, len, nulls) ==
    JsonDict(Append(Conforming(schema, len, nulls).items,
                    Keyed(SINGER_SEQUENCE, JsonInt(1))))

\* lines 706-712: table_schemas = self._get_streamed_table_schemas(...);
\* table_records = self._get_streamed_table_records(...)
_get_table_batches ==
    /\ call.op = "batch"
    /\ LET s == _get_streamed_table_schemas(Users, call.schema, UsersKeyProperties)
           r == denest_records(Users, call.records, <<>>, UsersKeyProperties,
                               <<>>, -1, <<>>)
       IN  call' = [op |-> "_get_table_batches", schema |-> call.schema,
                    records |-> call.records, raised |-> r.raised,
                    subtables |-> s.subtables,
                    records_map |-> IF r.raised THEN <<>> ELSE r.records_map]
    /\ UNCHANGED denestVars

InitBatches ==
    /\ PipelineAtRest
    /\ \E schema \in StreamSchemas(MaxSchemaNodes), len \in 0 .. MaxElements,
          nulls \in BOOLEAN :
         call = [op |-> "batch", schema |-> schema,
                 records |-> <<ConformingRecord(schema, len, nulls)>>,
                 raised |-> FALSE, subtables |-> <<>>, records_map |-> <<>>]

NextBatches == _get_table_batches

SpecBatches == InitBatches /\ [][NextBatches]_vars

\* the names of the tables schema denesting produced
SchemaTables == {Users} \cup DOMAIN call.subtables

\* the value of the record's one property
RecordProperty == call.records[1].items[2]

\* the record holds an array with elements at the path a.b.c, inside two
\* objects
ArrayTwoLevelsDeep ==
    /\ RecordProperty.k = "a"
    /\ RecordProperty.t = "dict"
    /\ Len(RecordProperty.items) = 1
    /\ RecordProperty.items[1].t = "dict"
    /\ Len(RecordProperty.items[1].items) = 1
    /\ RecordProperty.items[1].items[1].t = "list"
    /\ RecordProperty.items[1].items[1].items # <<>>

\* C40, as stated: for a schema and a record conforming to it, record
\* denesting produces a records map and each of its keys is the name of a
\* table of schema denesting, arrays inside objects nested two levels deep
\* included.
C40_Original ==
    call.op = "_get_table_batches" =>
        /\ ArrayTwoLevelsDeep => ~ call.raised
        /\ ~ call.raised => DOMAIN call.records_map \subseteq SchemaTables

\* Whenever record denesting returns, every key of its records map is the
\* name of a table of schema denesting.
ProducedKeysAreSchemaTables ==
    (call.op = "_get_table_batches" /\ ~ call.raised) =>
        DOMAIN call.records_map \subseteq SchemaTables

\* An array of objects inside one object: both sides name its table
\* users__a__b.
OneLevelArrayAgrees ==
    /\ call.op = "_get_table_batches"
    /\ ~ call.raised
    /\ (Users \o SEPARATOR \o "a" \o SEPARATOR \o "b") \in DOMAIN call.records_map
    /\ (Users \o SEPARATOR \o "a" \o SEPARATOR \o "b") \in DOMAIN call.subtables

\* An array at a.b.c: schema denesting names its table users__a__c, without
\* the inner object's name, and record denesting raises at the inner object.
TwoLevelArrayDisagrees ==
    /\ call.op = "_get_table_batches"
    /\ ArrayTwoLevelsDeep
    /\ call.raised
    /\ DOMAIN call.subtables = {Users \o SEPARATOR \o "a" \o SEPARATOR \o "c"}

====
